---- MODULE Spec2Model ----
\* Verification model of the tanssi-tools proxy scripts.
\*
\* The main subject is scripts/genesisProxyModification.ts: two CSV sources
\* (NEW and OLD) are parsed and validated, folded into per-genesis maps, diffed
\* by buildCalls into dispatchAs units, batched, wrapped and optionally sent to
\* a Chopsticks fork.
\*
\* A text (a CSV cell: address, proxy type, delay) is a sequence of
\* one-character strings; an AccountId is an atomic string.
EXTENDS Integers, Sequences, FiniteSets, TLC

\* ---------------------------------------------------------------------
\* Bounds of the model
\* ---------------------------------------------------------------------

\* Largest number of data rows of a CSV source.
MaxRows == 2

\* ---------------------------------------------------------------------
\* Generic helpers (JavaScript built-ins used by the scripts)
\* ---------------------------------------------------------------------

UpperCase ==
    <<"A", "B", "C", "D", "E", "F", "G", "H", "I", "J", "K", "L", "M",
      "N", "O", "P", "Q", "R", "S", "T", "U", "V", "W", "X", "Y", "Z">>

LowerCase ==
    <<"a", "b", "c", "d", "e", "f", "g", "h", "i", "j", "k", "l", "m",
      "n", "o", "p", "q", "r", "s", "t", "u", "v", "w", "x", "y", "z">>

Digits ==
    <<"0", "1", "2", "3", "4", "5", "6", "7", "8", "9">>

Range(s) ==
    { s[i] : i \in DOMAIN s }

\* const v = e; followed by code F that uses v: e is evaluated once.
With(e, F(_)) ==
    CHOOSE r \in { F(v) : v \in {e} } : TRUE

\* String.prototype.toLowerCase on one character.
LowerChar(c) ==
    IF \E i \in DOMAIN UpperCase : UpperCase[i] = c
    THEN LowerCase[CHOOSE i \in DOMAIN UpperCase : UpperCase[i] = c]
    ELSE c

\* String.prototype.toUpperCase on one character.
UpperChar(c) ==
    IF \E i \in DOMAIN LowerCase : LowerCase[i] = c
    THEN UpperCase[CHOOSE i \in DOMAIN LowerCase : LowerCase[i] = c]
    ELSE c

toLowerCase(t) ==
    [i \in DOMAIN t |-> LowerChar(t[i])]

IsSpace(c) ==
    c \in {" ", "\t"}

\* String.prototype.trim: drops leading and trailing white space.
trim(t) ==
    IF \A i \in DOMAIN t : IsSpace(t[i]) THEN <<>>
    ELSE SubSeq(t,
                CHOOSE i \in DOMAIN t :
                    ~IsSpace(t[i]) /\ \A j \in 1..(i - 1) : IsSpace(t[j]),
                CHOOSE i \in DOMAIN t :
                    ~IsSpace(t[i]) /\ \A j \in (i + 1)..Len(t) : IsSpace(t[j]))

IsSeparator(c) ==
    IsSpace(c) \/ c \in {"_", "-"}

\* A replace that removes nothing.
KeepSeparators(t) ==
    t

\* t.replace(/[\s_-]/g, ""): removes white space, underscores and hyphens.
StripSeparators(t) ==
    SelectSeq(t, LAMBDA c : ~IsSeparator(c))

\* t.charAt(0).toUpperCase() + t.slice(1)
CapitalizeFirst(t) ==
    IF t = <<>> THEN <<>> ELSE <<UpperChar(Head(t))>> \o Tail(t)

\* ---------------------------------------------------------------------
\* Proxy types
\* ---------------------------------------------------------------------

KNOWN_PROXY_TYPES ==
    { <<"A", "n", "y">>,
      <<"N", "o", "n", "T", "r", "a", "n", "s", "f", "e", "r">>,
      <<"G", "o", "v", "e", "r", "n", "a", "n", "c", "e">>,
      <<"S", "t", "a", "k", "i", "n", "g">>,
      <<"I", "d", "e", "n", "t", "i", "t", "y", "J", "u", "d", "g", "e", "m", "e", "n", "t">>,
      <<"C", "a", "n", "c", "e", "l", "P", "r", "o", "x", "y">>,
      <<"A", "u", "c", "t", "i", "o", "n">>,
      <<"S", "o", "c", "i", "e", "t", "y">>,
      <<"N", "o", "m", "i", "n", "a", "t", "i", "o", "n", "P", "o", "o", "l", "s">>,
      <<"F", "a", "s", "t", "G", "o", "v", "e", "r", "n", "a", "n", "c", "e">>,
      <<"E", "t", "h", "e", "r", "e", "u", "m", "B", "r", "i", "d", "g", "e">>,
      <<"A", "s", "s", "e", "t", "s">> }

\* The synonym table of normalizeProxyType, as <<key, value>> pairs.
synonyms ==
    << <<<<"a", "n", "y">>, <<"A", "n", "y">>>>,
       <<<<"s", "t", "a", "k", "i", "n", "g">>, <<"S", "t", "a", "k", "i", "n", "g">>>>,
       <<<<"g", "o", "v", "e", "r", "n", "a", "n", "c", "e">>,
         <<"G", "o", "v", "e", "r", "n", "a", "n", "c", "e">>>>,
       <<<<"n", "o", "n", "t", "r", "a", "n", "s", "f", "e", "r">>,
         <<"N", "o", "n", "T", "r", "a", "n", "s", "f", "e", "r">>>>,
       <<<<"n", "o", "n", "-", "t", "r", "a", "n", "s", "f", "e", "r">>,
         <<"N", "o", "n", "T", "r", "a", "n", "s", "f", "e", "r">>>>,
       <<<<"i", "d", "e", "n", "t", "i", "t", "y", "j", "u", "d", "g", "e", "m", "e", "n", "t">>,
         <<"I", "d", "e", "n", "t", "i", "t", "y", "J", "u", "d", "g", "e", "m", "e", "n", "t">>>>,
       <<<<"i", "d", "e", "n", "t", "i", "t", "y", "-", "j", "u", "d", "g", "e", "m", "e", "n", "t">>,
         <<"I", "d", "e", "n", "t", "i", "t", "y", "J", "u", "d", "g", "e", "m", "e", "n", "t">>>>,
       <<<<"c", "a", "n", "c", "e", "l", "p", "r", "o", "x", "y">>,
         <<"C", "a", "n", "c", "e", "l", "P", "r", "o", "x", "y">>>>,
       <<<<"p", "o", "o", "l", "s">>,
         <<"N", "o", "m", "i", "n", "a", "t", "i", "o", "n", "P", "o", "o", "l", "s">>>>,
       <<<<"n", "o", "m", "i", "n", "a", "t", "i", "o", "n", "p", "o", "o", "l", "s">>,
         <<"N", "o", "m", "i", "n", "a", "t", "i", "o", "n", "P", "o", "o", "l", "s">>>> >>

HasSynonym(key) ==
    \E i \in DOMAIN synonyms : synonyms[i][1] = key

SynonymOf(key) ==
    synonyms[CHOOSE i \in DOMAIN synonyms : synonyms[i][1] = key][2]

\* synonyms[key] ?? t.charAt(0).toUpperCase() + t.slice(1)
MappedProxyType(t, key) ==
    IF HasSynonym(key) THEN SynonymOf(key) ELSE CapitalizeFirst(t)

\* The normalization without the test of membership in KNOWN_PROXY_TYPES.
normalizeProxyTypeUnchecked(raw) ==
    With(trim(raw), LAMBDA t :
    With(toLowerCase(StripSeparators(t)), LAMBDA key :
        [ok |-> TRUE, value |-> MappedProxyType(t, key), error |-> "none"]))

\* normalizeProxyType(raw): the normalised type, or the thrown error.
normalizeProxyType(raw) ==
    With(trim(raw), LAMBDA t :
    With(toLowerCase(StripSeparators(t)), LAMBDA key :
    With(MappedProxyType(t, key), LAMBDA mapped :
        IF mapped \notin KNOWN_PROXY_TYPES
        THEN [ok |-> FALSE, value |-> <<>>, error |-> "UnknownProxyType"]
        ELSE [ok |-> TRUE, value |-> mapped, error |-> "none"])))

\* ---------------------------------------------------------------------
\* Delays: Number(text), String(number), BigInt(text)
\* ---------------------------------------------------------------------
\* A JavaScript number is [kind, neg, int, frac]: kind is "nan", "inf" or
\* "fin"; int is the integer part as decimal digits without leading zeros
\* (<<"0">> for zero) and frac the fractional digits without trailing zeros
\* (<<>> for an integer).  Texts stay within what a double holds exactly
\* (at most 15 significant digits, or a power of ten); hexadecimal, octal
\* and binary literals are outside the modelled grammar.

IsDigit(c) ==
    c \in Range(Digits)

IsDigits(t) ==
    \A i \in DOMAIN t : IsDigit(t[i])

DigitValue(c) ==
    (CHOOSE i \in DOMAIN Digits : Digits[i] = c) - 1

\* Digits as written, leading zeros kept.
KeepLeadingZeros(t) ==
    t

\* Digits without leading zeros (<<"0">> when nothing else is left).
StripLeadingZeros(t) ==
    IF \A i \in DOMAIN t : t[i] = "0" THEN <<"0">>
    ELSE SubSeq(t,
                CHOOSE i \in DOMAIN t :
                    t[i] # "0" /\ \A j \in 1..(i - 1) : t[j] = "0",
                Len(t))

\* Digits without trailing zeros.
StripTrailingZeros(t) ==
    IF \A i \in DOMAIN t : t[i] = "0" THEN <<>>
    ELSE SubSeq(t, 1,
                CHOOSE i \in DOMAIN t :
                    t[i] # "0" /\ \A j \in (i + 1)..Len(t) : t[j] = "0")

Zeros(n) ==
    [i \in 1..n |-> "0"]

\* Value of a digit text of at most three digits (exponents only).
DecimalValue(t) ==
    LET d(i) == IF i <= Len(t) THEN DigitValue(t[Len(t) + 1 - i]) ELSE 0
    IN  d(1) + 10 * d(2) + 100 * d(3)

IndexOf(t, chars) ==
    IF \E i \in DOMAIN t : t[i] \in chars
    THEN CHOOSE i \in DOMAIN t : t[i] \in chars /\ \A j \in 1..(i - 1) : t[j] \notin chars
    ELSE 0

NaN ==
    [kind |-> "nan", neg |-> FALSE, int |-> <<"0">>, frac |-> <<>>]

Infinity(neg) ==
    [kind |-> "inf", neg |-> neg, int |-> <<"0">>, frac |-> <<>>]

\* The finite number with digits `all` and the decimal point after position p.
Finite(neg, all, p) ==
    [kind |-> "fin", neg |-> neg,
     int  |-> StripLeadingZeros(IF p <= 0 THEN <<>>
                                ELSE IF p >= Len(all) THEN all \o Zeros(p - Len(all))
                                ELSE SubSeq(all, 1, p)),
     frac |-> StripTrailingZeros(IF p <= 0 THEN Zeros(0 - p) \o all
                                 ELSE IF p >= Len(all) THEN <<>>
                                 ELSE SubSeq(all, p + 1, Len(all)))]

\* The finite number of a mantissa ip.fp and an exponent text ex ("" when
\* the literal has no exponent part), or NaN when they are malformed.
DecimalLiteral(neg, ip, fp, hasExp, ex) ==
    With(ex # <<>> /\ Head(ex) = "-", LAMBDA exNeg :
    With(IF ex # <<>> /\ Head(ex) \in {"+", "-"} THEN Tail(ex) ELSE ex, LAMBDA exDig :
        IF /\ IsDigits(ip) /\ IsDigits(fp) /\ ip \o fp # <<>>
           /\ (~hasExp \/ (exDig # <<>> /\ IsDigits(exDig)))
        THEN Finite(neg, ip \o fp,
                    Len(ip) + (IF ~hasExp THEN 0
                               ELSE IF exNeg THEN 0 - DecimalValue(exDig)
                               ELSE DecimalValue(exDig)))
        ELSE NaN))

\* An unsigned StrDecimalLiteral: digits [. digits] [e [sign] digits].
UnsignedNumber(neg, t) ==
    IF t = <<"I", "n", "f", "i", "n", "i", "t", "y">> THEN Infinity(neg)
    ELSE
    With(IndexOf(t, {"e", "E"}), LAMBDA e :
    With(IF e = 0 THEN t ELSE SubSeq(t, 1, e - 1), LAMBDA mant :
    With(IndexOf(mant, {"."}), LAMBDA dot :
        DecimalLiteral(neg,
                       IF dot = 0 THEN mant ELSE SubSeq(mant, 1, dot - 1),
                       IF dot = 0 THEN <<>> ELSE SubSeq(mant, dot + 1, Len(mant)),
                       e # 0,
                       IF e = 0 THEN <<>> ELSE SubSeq(t, e + 1, Len(t))))))

\* Number(text) for a string argument.
Number(text) ==
    With(trim(text), LAMBDA t :
        IF t = <<>> THEN Finite(FALSE, <<"0">>, 1)
        ELSE IF Head(t) = "-" THEN UnsignedNumber(TRUE, Tail(t))
        ELSE IF Head(t) = "+" THEN UnsignedNumber(FALSE, Tail(t))
        ELSE UnsignedNumber(FALSE, t))

IsZero(n) ==
    n.kind = "fin" /\ n.int = <<"0">> /\ n.frac = <<>>

isNaN(n) ==
    n.kind = "nan"

NumberIsFinite(n) ==
    n.kind = "fin"

NumberIsInteger(n) ==
    n.kind = "fin" /\ n.frac = <<>>

\* d < 0 (false for NaN and for -0).
LessThanZero(n) ==
    n.kind # "nan" /\ n.neg /\ ~IsZero(n)

\* The digits m and the exponent n of a number from 1e21 on: d.ddde+nn
ExponentForm(m, n) ==
    <<Head(m)>> \o (IF Len(m) > 1 THEN <<".">> \o Tail(m) ELSE <<>>)
    \o <<"e", "+">> \o <<Digits[(n \div 10) + 1], Digits[(n % 10) + 1]>>

\* String(number): exponent notation from 1e21 on.
NumberToString(n) ==
    IF n.kind = "nan" THEN <<"N", "a", "N">>
    ELSE (IF n.neg /\ ~IsZero(n) THEN <<"-">> ELSE <<>>)
         \o (IF n.kind = "inf" THEN <<"I", "n", "f", "i", "n", "i", "t", "y">>
             ELSE IF Len(n.int) >= 22
             THEN ExponentForm(StripTrailingZeros(n.int), Len(n.int) - 1)
             ELSE n.int \o (IF n.frac = <<>> THEN <<>> ELSE <<".">> \o n.frac))

\* BigInt(text): the integer as canonical digits, or a SyntaxError.
BigIntOfDigits(neg, dig) ==
    IF dig # <<>> /\ IsDigits(dig)
    THEN [ok |-> TRUE,
          value |-> (IF neg /\ StripLeadingZeros(dig) # <<"0">> THEN <<"-">> ELSE <<>>)
                    \o StripLeadingZeros(dig)]
    ELSE [ok |-> FALSE, value |-> <<>>]

BigInt(text) ==
    With(trim(text), LAMBDA t :
        IF t = <<>> THEN [ok |-> TRUE, value |-> <<"0">>]
        ELSE IF Head(t) \in {"+", "-"} THEN BigIntOfDigits(Head(t) = "-", Tail(t))
        ELSE BigIntOfDigits(FALSE, t))

\* ---------------------------------------------------------------------
\* Addresses
\* ---------------------------------------------------------------------
\* decodeAddress accepts an account in any textual form (SS58 under any
\* network prefix, or the hexadecimal public key) and returns the AccountId;
\* it throws on anything else.  Each entry is <<text, AccountId>>.
AddressBook ==
    << << <<"5", "A">>, "Alice" >>, << <<"0", "x", "A">>, "Alice" >>,
       << <<"5", "B">>, "Bob" >>,
       << <<"5", "P">>, "Pam" >>, << <<"0", "x", "P">>, "Pam" >>,
       << <<"5", "Q">>, "Quin" >> >>

decodeAddress(text) ==
    IF \E i \in DOMAIN AddressBook : AddressBook[i][1] = text
    THEN [ok |-> TRUE,
          value |-> AddressBook[CHOOSE i \in DOMAIN AddressBook : AddressBook[i][1] = text][2]]
    ELSE [ok |-> FALSE, value |-> "invalid"]

\* ---------------------------------------------------------------------
\* Errors
\* ---------------------------------------------------------------------
\* What a thrown Error's message carries: the kind of message, and the file
\* path, row number, column number, header names, raw proxy type or address
\* that the message text includes ("" / 0 / <<>> when it includes none).
NoError ==
    [kind |-> "none", file |-> "", line |-> 0, column |-> 0,
     expected |-> "", got |-> "", raw |-> <<>>, address |-> <<>>]

ErrorAt(kind, file, line) ==
    [NoError EXCEPT !.kind = kind, !.file = file, !.line = line]

\* ---------------------------------------------------------------------
\* CSV sources
\* ---------------------------------------------------------------------
\* A source is [header, rows]: the header line's column names and, per data
\* row, its cells (already trimmed: the parser runs with trim: true).

EXPECTED_HEADERS ==
    <<"Genesis Account", "Proxy Account", "Proxy Type", "Delay">>

ColumnOf(header, name) ==
    CHOOSE i \in DOMAIN header : header[i] = name

\* parse(content, {columns: true, ...}): one record per data row, keyed by
\* the header's column names; a row whose cell count differs from the
\* header's is a parser error.
parse(file) ==
    IF \E i \in DOMAIN file.rows : Len(file.rows[i]) # Len(file.header)
    THEN [ok |-> FALSE, records |-> <<>>]
    ELSE [ok |-> TRUE,
          records |-> [i \in DOMAIN file.rows |->
                          [n \in Range(file.header) |->
                              file.rows[i][ColumnOf(file.header, n)]]]]

\* headers[i] of Object.keys(records[0]); "undefined" past the end.
HeaderAt(header, i) ==
    IF i \in DOMAIN header THEN header[i] ELSE "undefined"

\* The last column at which the header differs from EXPECTED_HEADERS, or 0.
LastHeaderMismatch(header) ==
    IF \E i \in DOMAIN EXPECTED_HEADERS : HeaderAt(header, i) # EXPECTED_HEADERS[i]
    THEN CHOOSE i \in DOMAIN EXPECTED_HEADERS :
            /\ HeaderAt(header, i) # EXPECTED_HEADERS[i]
            /\ \A j \in (i + 1)..Len(EXPECTED_HEADERS) :
                   HeaderAt(header, j) = EXPECTED_HEADERS[j]
    ELSE 0

\* The first column at which the header differs from EXPECTED_HEADERS, or 0.
FirstHeaderMismatch(header) ==
    IF \E i \in DOMAIN EXPECTED_HEADERS : HeaderAt(header, i) # EXPECTED_HEADERS[i]
    THEN CHOOSE i \in DOMAIN EXPECTED_HEADERS :
            /\ HeaderAt(header, i) # EXPECTED_HEADERS[i]
            /\ \A j \in 1..(i - 1) : HeaderAt(header, j) = EXPECTED_HEADERS[j]
    ELSE 0

\* The delay test of validateCSVStructure.
InvalidDelay(delay) ==
    With(Number(delay), LAMBDA d :
        ~NumberIsFinite(d) \/ isNaN(d) \/ LessThanZero(d) \/ ~NumberIsInteger(d))

\* The checks of one data row, in the order of the loop body; NoError when
\* the row passes.
RowError(row, lineNumber, filePath) ==
    LET genesis == row["Genesis Account"]
        proxy   == row["Proxy Account"]
        type    == row["Proxy Type"]
        delay   == row["Delay"]
    IN  IF genesis = <<>> \/ proxy = <<>> \/ type = <<>> \/ "Delay" \notin DOMAIN row
        THEN ErrorAt("MissingField", filePath, lineNumber)
        ELSE IF ~decodeAddress(genesis).ok
        THEN ErrorAt("InvalidGenesisAddress", filePath, lineNumber)
        ELSE IF ~decodeAddress(proxy).ok
        THEN ErrorAt("InvalidProxyAddress", filePath, lineNumber)
        ELSE IF ~normalizeProxyType(type).ok
        THEN [NoError EXCEPT !.kind = "UnknownProxyType", !.raw = type]
        ELSE IF InvalidDelay(delay)
        THEN ErrorAt("InvalidDelay", filePath, lineNumber)
        ELSE NoError

\* The error of the first data row that fails a check, NoError when none does.
FirstRowError(records, filePath) ==
    With([i \in DOMAIN records |-> RowError(records[i], i + 1, filePath)], LAMBDA errs :
        IF \A i \in DOMAIN errs : errs[i] = NoError THEN NoError
        ELSE errs[CHOOSE i \in DOMAIN errs :
                     errs[i] # NoError /\ \A j \in 1..(i - 1) : errs[j] = NoError])

ValidationFailure(e) ==
    [ok |-> FALSE, records |-> <<>>, error |-> e]

\* The row loop of validateCSVStructure and its return.
CheckRows(filePath, records) ==
    With(FirstRowError(records, filePath), LAMBDA rowError :
        IF rowError # NoError
        THEN ValidationFailure(rowError)
        ELSE [ok |-> TRUE, records |-> records, error |-> NoError])

\* The checks on the records without the test for an empty file.
CheckRecordsNoEmpty(filePath, header, records) ==
    With(FirstHeaderMismatch(header), LAMBDA bad :
        IF bad # 0
        THEN ValidationFailure([NoError EXCEPT !.kind = "HeaderMismatch",
                                               !.file = filePath,
                                               !.column = bad,
                                               !.expected = EXPECTED_HEADERS[bad],
                                               !.got = HeaderAt(header, bad)])
        ELSE CheckRows(filePath, records))

\* The checks on the records with the header compared before the test for
\* an empty file.
CheckRecordsHeaderFirst(filePath, header, records) ==
    With(FirstHeaderMismatch(header), LAMBDA bad :
        IF bad # 0
        THEN ValidationFailure([NoError EXCEPT !.kind = "HeaderMismatch",
                                               !.file = filePath,
                                               !.column = bad,
                                               !.expected = EXPECTED_HEADERS[bad],
                                               !.got = HeaderAt(header, bad)])
        ELSE IF Len(records) = 0
        THEN ValidationFailure([NoError EXCEPT !.kind = "EmptyFile", !.file = filePath])
        ELSE CheckRows(filePath, records))

\* validateCSVStructure after the parsing: the checks on the records.
CheckRecords(filePath, header, records) ==
    With(FirstHeaderMismatch(header), LAMBDA bad :
        IF Len(records) = 0
        THEN ValidationFailure([NoError EXCEPT !.kind = "EmptyFile", !.file = filePath])
        ELSE IF bad # 0
        THEN ValidationFailure([NoError EXCEPT !.kind = "HeaderMismatch",
                                               !.file = filePath,
                                               !.column = bad,
                                               !.expected = EXPECTED_HEADERS[bad],
                                               !.got = HeaderAt(header, bad)])
        ELSE CheckRows(filePath, records))

\* validateCSVStructure(filePath): the records, or the first error thrown.
validateCSVStructure(filePath, file) ==
    With(parse(file), LAMBDA parsed :
        IF ~parsed.ok
        THEN ValidationFailure([NoError EXCEPT !.kind = "ParseError"])
        ELSE CheckRecords(filePath, file.header, parsed.records))

\* ---------------------------------------------------------------------
\* Per-genesis maps
\* ---------------------------------------------------------------------
\* A PerGenesisConfig (a JavaScript Map, which iterates in insertion order)
\* is the sequence of its entries [genesis, proxy, type, delay], genesis
\* being the key.

MapKeys(map) ==
    [i \in DOMAIN map |-> map[i].genesis]

MapHas(map, genesis) ==
    \E i \in DOMAIN map : map[i].genesis = genesis

MapGet(map, genesis) ==
    map[CHOOSE i \in DOMAIN map : map[i].genesis = genesis]

\* A fold in which a later row of an owner replaces the earlier one (what
\* Map.set alone would do, without the map.has test).
RECURSIVE FoldRowsLastWins(_, _)
FoldRowsLastWins(map, rows) ==
    IF rows = <<>> THEN [ok |-> TRUE, map |-> map, error |-> NoError]
    ELSE LET r       == Head(rows)
             genesis == trim(r["Genesis Account"])
             type    == normalizeProxyType(r["Proxy Type"])
             entry   == [genesis |-> genesis,
                         proxy   |-> trim(r["Proxy Account"]),
                         type    |-> type.value,
                         delay   |-> NumberToString(Number(r["Delay"]))]
         IN  IF ~type.ok
             THEN [ok |-> FALSE, map |-> <<>>,
                   error |-> [NoError EXCEPT !.kind = "UnknownProxyType",
                                             !.raw = r["Proxy Type"]]]
             ELSE IF MapHas(map, genesis)
             THEN FoldRowsLastWins(
                      [i \in DOMAIN map |->
                          IF map[i].genesis = genesis THEN entry ELSE map[i]],
                      Tail(rows))
             ELSE FoldRowsLastWins(Append(map, entry), Tail(rows))

\* toPerGenesisMap, continued from the map built so far.
RECURSIVE FoldRows(_, _)
FoldRows(map, rows) ==
    IF rows = <<>> THEN [ok |-> TRUE, map |-> map, error |-> NoError]
    ELSE LET r       == Head(rows)
             genesis == trim(r["Genesis Account"])
             type    == normalizeProxyType(r["Proxy Type"])
         IN  IF MapHas(map, genesis)
             THEN [ok |-> FALSE, map |-> <<>>,
                   error |-> [NoError EXCEPT !.kind = "DuplicateGenesis",
                                             !.address = genesis]]
             ELSE IF ~type.ok
             THEN [ok |-> FALSE, map |-> <<>>,
                   error |-> [NoError EXCEPT !.kind = "UnknownProxyType",
                                             !.raw = r["Proxy Type"]]]
             ELSE FoldRows(Append(map, [genesis |-> genesis,
                                        proxy   |-> trim(r["Proxy Account"]),
                                        type    |-> type.value,
                                        delay   |-> NumberToString(Number(r["Delay"]))]),
                           Tail(rows))

toPerGenesisMap(rows) ==
    FoldRows(<<>>, rows)

\* ---------------------------------------------------------------------
\* Calls
\* ---------------------------------------------------------------------
\* An extrinsic built through api.tx is [call, origin, delegate, type, delay,
\* calls]: the pallet call's name and, as that call has them, the dispatchAs
\* origin (an AccountId), the delegate (an AccountId), the proxy type, the
\* delay (an integer, as decimal digits) and the wrapped calls.
NoCall ==
    [call |-> "none", origin |-> "", delegate |-> "", type |-> <<>>,
     delay |-> <<>>, calls |-> <<>>]

removeProxy(delegate, type, delay) ==
    [NoCall EXCEPT !.call = "proxy.removeProxy", !.delegate = delegate,
                   !.type = type, !.delay = delay]

addProxy(delegate, type, delay) ==
    [NoCall EXCEPT !.call = "proxy.addProxy", !.delegate = delegate,
                   !.type = type, !.delay = delay]

batchAll(calls) ==
    [NoCall EXCEPT !.call = "utility.batchAll", !.calls = calls]

\* utility.dispatchAs({system: {Signed: origin}}, call)
dispatchAs(origin, call) ==
    [NoCall EXCEPT !.call = "utility.dispatchAs", !.origin = origin,
                   !.calls = <<call>>]

sudo(call) ==
    [NoCall EXCEPT !.call = "sudo.sudo", !.calls = <<call>>]

\* ---------------------------------------------------------------------
\* buildCalls
\* ---------------------------------------------------------------------

\* allGenesis: the keys of newCfg, then the keys of oldCfg not among them
\* (a Set keeps the first insertion of each value).
RECURSIVE AppendNew(_, _)
AppendNew(seen, keys) ==
    IF keys = <<>> THEN seen
    ELSE IF Head(keys) \in Range(seen) THEN AppendNew(seen, Tail(keys))
    ELSE AppendNew(Append(seen, Head(keys)), Tail(keys))

\* The union taken the other way round: the keys of oldCfg first.
allGenesisOldFirst(newCfg, oldCfg) ==
    AppendNew(AppendNew(<<>>, MapKeys(oldCfg)), MapKeys(newCfg))

allGenesis(newCfg, oldCfg) ==
    AppendNew(AppendNew(<<>>, MapKeys(newCfg)), MapKeys(oldCfg))

\* The threshold of summarizePlan: the accounts are listed when there are at
\* most this many.
SummaryListLimit ==
    10

\* A summary that counts the entries of the two lists instead of the
\* accounts: an account in both lists counts twice.
summarizePlanPerEntry(toRemove, toAdd) ==
    With([i \in DOMAIN toRemove |-> toRemove[i].genesis]
         \o [i \in DOMAIN toAdd |-> toAdd[i].genesis], LAMBDA accounts :
        [text      |-> "PLAN SUMMARY",
         accounts  |-> Len(accounts),
         removals  |-> Len(toRemove),
         additions |-> Len(toAdd),
         listed    |-> Len(accounts) <= SummaryListLimit,
         list      |-> IF Len(accounts) <= SummaryListLimit THEN accounts ELSE <<>>])

\* summarizePlan(toRemove, toAdd): what it prints - the heading, the number
\* of accounts impacted, of removals and of additions, and the accounts (in
\* the order a Set keeps them) when they are at most SummaryListLimit.
\* main() does not call it.
summarizePlan(toRemove, toAdd) ==
    With(AppendNew(AppendNew(<<>>, [i \in DOMAIN toRemove |-> toRemove[i].genesis]),
                   [i \in DOMAIN toAdd |-> toAdd[i].genesis]), LAMBDA accounts :
        [text      |-> "PLAN SUMMARY",
         accounts  |-> Len(accounts),
         removals  |-> Len(toRemove),
         additions |-> Len(toAdd),
         listed    |-> Len(accounts) <= SummaryListLimit,
         list      |-> IF Len(accounts) <= SummaryListLimit THEN accounts ELSE <<>>])

\* The "skip if identical" test of the loop body.
Identical(newCfg, oldCfg, genesis) ==
    /\ MapHas(oldCfg, genesis)
    /\ MapHas(newCfg, genesis)
    /\ MapGet(oldCfg, genesis).proxy = MapGet(newCfg, genesis).proxy
    /\ MapGet(oldCfg, genesis).type = MapGet(newCfg, genesis).type
    /\ MapGet(oldCfg, genesis).delay = MapGet(newCfg, genesis).delay

\* Whether building the proxy call of a map entry throws (decodeAddress or
\* BigInt rejecting its argument).
CallThrows(row) ==
    ~decodeAddress(row.proxy).ok \/ ~BigInt(row.delay).ok

\* innerCalls of one loop iteration: removeProxy for the old row, then
\* addProxy for the new row.
innerCalls(newCfg, oldCfg, genesis) ==
    (IF MapHas(oldCfg, genesis)
     THEN LET oldRow == MapGet(oldCfg, genesis)
          IN  <<removeProxy(decodeAddress(oldRow.proxy).value, oldRow.type,
                            BigInt(oldRow.delay).value)>>
     ELSE <<>>)
    \o
    (IF MapHas(newCfg, genesis)
     THEN LET newRow == MapGet(newCfg, genesis)
          IN  <<addProxy(decodeAddress(newRow.proxy).value, newRow.type,
                         BigInt(newRow.delay).value)>>
     ELSE <<>>)

\* Whether the loop iteration for genesis throws.
IterationThrows(newCfg, oldCfg, genesis) ==
    /\ ~Identical(newCfg, oldCfg, genesis)
    /\ \/ MapHas(oldCfg, genesis) /\ CallThrows(MapGet(oldCfg, genesis))
       \/ MapHas(newCfg, genesis) /\ CallThrows(MapGet(newCfg, genesis))
       \/ ~decodeAddress(genesis).ok

\* perGenesisBatch: the single call, or the batchAll of the two.
perGenesisBatch(inner) ==
    IF Len(inner) = 1 THEN inner[1] ELSE batchAll(inner)

\* The calls one loop iteration pushes (none or one).
dispatchAsGenesis(newCfg, oldCfg, genesis) ==
    LET inner == innerCalls(newCfg, oldCfg, genesis)
    IN  IF Identical(newCfg, oldCfg, genesis) \/ Len(inner) = 0 THEN <<>>
        ELSE <<dispatchAs(decodeAddress(genesis).value, perGenesisBatch(inner))>>

RECURSIVE BuildLoop(_, _, _, _)
BuildLoop(calls, newCfg, oldCfg, rest) ==
    IF rest = <<>> THEN [ok |-> TRUE, calls |-> calls]
    ELSE IF IterationThrows(newCfg, oldCfg, Head(rest))
    THEN [ok |-> FALSE, calls |-> <<>>]
    ELSE BuildLoop(calls \o dispatchAsGenesis(newCfg, oldCfg, Head(rest)),
                   newCfg, oldCfg, Tail(rest))

\* buildCalls(api, newCfg, oldCfg): the dispatchAs calls, or a thrown error.
buildCalls(newCfg, oldCfg) ==
    BuildLoop(<<>>, newCfg, oldCfg, allGenesis(newCfg, oldCfg))

\* ---------------------------------------------------------------------
\* Inputs of a run
\* ---------------------------------------------------------------------

SeqsUpTo(S, n) ==
    UNION { [1..k -> S] : k \in 0..n }

\* Data rows a source may hold. Every row passes every check; Alice's address
\* is written in two forms ("5A", "0xA").
RowPool ==
    { << <<"5", "A">>, <<"5", "P">>, <<"A", "n", "y">>, <<"7">> >>,
      << <<"0", "x", "A">>, <<"5", "Q">>, <<"a", "n", "y">>, <<"0", "0", "7">> >>,
      << <<"5", "B">>, <<"5", "Q">>, <<"s", "t", "a", "k", "i", "n", "g">>, <<"0">> >> }

\* Sources whose Delay cell is empty, in exponent notation, or "100".
DelaySources ==
    { [header |-> EXPECTED_HEADERS,
       rows   |-> << << <<"5", "B">>, <<"5", "P">>, <<"A", "n", "y">>, <<>> >> >>],
      [header |-> EXPECTED_HEADERS,
       rows   |-> << << <<"5", "B">>, <<"5", "P">>, <<"A", "n", "y">>,
                        <<"1", "e", "2", "1">> >> >>],
      [header |-> EXPECTED_HEADERS,
       rows   |-> << << <<"5", "B">>, <<"5", "Q">>, <<"S", "t", "a", "k", "i", "n", "g">>,
                        <<"1", "0", "0">> >> >>] }

\* Sources with other spellings of the proxy type.
TypeSources ==
    { [header |-> EXPECTED_HEADERS,
       rows   |-> << << <<"5", "A">>, <<"5", "P">>,
                        <<"n", "o", "n", "-", "t", "r", "a", "n", "s", "f", "e", "r">>,
                        <<"7">> >>,
                     << <<"0", "x", "A">>, <<"5", "P">>,
                        <<"N", "o", "n", "T", "r", "a", "n", "s", "f", "e", "r">>,
                        <<"7">> >>,
                     << <<"5", "B">>, <<"5", "P">>, <<"p", "o", "o", "l", "s">>,
                        <<"7">> >> >>],
      [header |-> EXPECTED_HEADERS,
       rows   |-> << << <<"5", "B">>, <<"5", "P">>,
                        <<"n", "o", "t", "-", "a", "-", "r", "e", "a", "l", "-",
                          "t", "y", "p", "e">>,
                        <<"7">> >> >>] }

\* Sources with the four column names in another order, and a source with
\* three columns and no data row.
HeaderSources ==
    { [header |-> <<"Proxy Account", "Genesis Account", "Proxy Type", "Delay">>,
       rows   |-> << << <<"5", "P">>, <<"5", "A">>, <<"A", "n", "y">>, <<"7">> >> >>],
      [header |-> <<"Delay", "Genesis Account", "Proxy Account", "Proxy Type">>,
       rows   |-> << << <<"7">>, <<"5", "A">>, <<"5", "P">>, <<"A", "n", "y">> >> >>],
      [header |-> <<"Genesis Account", "Proxy Account", "Proxy Type">>,
       rows   |-> << >>] }

\* Sources with rows that fail more than one check, and with more than one
\* failing row.
RowCheckSources ==
    { [header |-> EXPECTED_HEADERS,
       rows   |-> << << <<"5", "A">>, <<"z", "z">>, <<"b", "o", "g", "u", "s">>, <<"-", "1">> >>,
                     << <<>>, <<"5", "P">>, <<"A", "n", "y">>, <<"7">> >> >>],
      [header |-> EXPECTED_HEADERS,
       rows   |-> << << <<"z", "z">>, <<"z", "z">>, <<"b", "o", "g", "u", "s">>, <<"x">> >> >>],
      [header |-> EXPECTED_HEADERS,
       rows   |-> << << <<"z", "z">>, <<>>, <<"b", "o", "g", "u", "s">>, <<"x">> >> >>],
      [header |-> EXPECTED_HEADERS,
       rows   |-> << << <<"5", "A">>, <<"5", "P">>, <<"A", "n", "y">>, <<"7">> >>,
                     << <<"5", "B">>, <<"5", "P">>, <<"A", "n", "y">>, <<"1", ".", "5">> >>,
                     << <<"z", "z">>, <<"5", "P">>, <<"A", "n", "y">>, <<"7">> >> >>],
      [header |-> EXPECTED_HEADERS,
       rows   |-> << << <<"5", "B">>, <<"5", "P">>, <<"A", "n", "y">>, <<>> >>,
                     << <<"z", "z">>, <<"5", "P">>, <<"A", "n", "y">>, <<"7">> >> >>] }

\* Sources whose only fault is a Delay cell that is not a number ("x"),
\* not finite ("Infinity"), or negative in the second row.
DelayCheckSources ==
    { [header |-> EXPECTED_HEADERS,
       rows   |-> << << <<"5", "B">>, <<"5", "P">>, <<"A", "n", "y">>, <<"x">> >> >>],
      [header |-> EXPECTED_HEADERS,
       rows   |-> << << <<"5", "B">>, <<"5", "P">>, <<"A", "n", "y">>,
                        <<"I", "n", "f", "i", "n", "i", "t", "y">> >> >>],
      [header |-> EXPECTED_HEADERS,
       rows   |-> << << <<"5", "A">>, <<"5", "P">>, <<"A", "n", "y">>, <<"7">> >>,
                     << <<"5", "B">>, <<"5", "P">>, <<"A", "n", "y">>, <<"-", "2">> >> >>] }

\* Sources whose Proxy Type cell is a known type in lower case or in upper
\* case.
CaseSources ==
    { [header |-> EXPECTED_HEADERS,
       rows   |-> << << <<"5", "B">>, <<"5", "P">>,
                        <<"f", "a", "s", "t", "g", "o", "v", "e", "r", "n", "a", "n", "c", "e">>,
                        <<"7">> >> >>],
      [header |-> EXPECTED_HEADERS,
       rows   |-> << << <<"5", "B">>, <<"5", "P">>,
                        <<"A", "U", "C", "T", "I", "O", "N">>, <<"7">> >> >>] }

\* Sources that write the delay 7 as "007" and the delay 100 as "1e2".
DelayFormatSources ==
    { [header |-> EXPECTED_HEADERS,
       rows   |-> << << <<"5", "A">>, <<"5", "P">>, <<"A", "n", "y">>,
                        <<"0", "0", "7">> >> >>],
      [header |-> EXPECTED_HEADERS,
       rows   |-> << << <<"5", "B">>, <<"5", "Q">>, <<"S", "t", "a", "k", "i", "n", "g">>,
                        <<"1", "e", "2">> >> >>] }

\* Further sources: with another header line, with a row that fails a check,
\* with Pam's address in its other form ("0xP" for "5P"), and with two
\* different rows for "5A".
OddSources ==
    { [header |-> <<"Genesis Account", "Proxy Account", "Delay", "Proxy Type">>,
       rows   |-> << << <<"5", "A">>, <<"5", "P">>, <<"7">>, <<"A", "n", "y">> >> >>],
      [header |-> <<"Genesis Account", "Proxy Account", "Proxy Type">>,
       rows   |-> << << <<"5", "A">>, <<"5", "P">>, <<"A", "n", "y">> >> >>],
      [header |-> <<"Genesis Account", "Proxy Account", "Proxy Type", "Delay", "Note">>,
       rows   |-> << << <<"5", "B">>, <<"5", "P">>, <<"A", "n", "y">>, <<"7">>, <<"x">> >> >>],
      [header |-> EXPECTED_HEADERS,
       rows   |-> << << <<"5", "A">>, <<"5", "P">>, <<"A", "n", "y">>, <<"7">> >>,
                     << <<>>, <<"5", "P">>, <<"A", "n", "y">>, <<"7">> >> >>],
      [header |-> EXPECTED_HEADERS,
       rows   |-> << << <<"5", "B">>, <<"5", "P">>, <<"b", "o", "g", "u", "s">>, <<"-", "1">> >> >>],
      [header |-> EXPECTED_HEADERS,
       rows   |-> << << <<"5", "B">>, <<"5", "P">>, <<"A", "n", "y">>, <<"-", "1">> >> >>],
      [header |-> EXPECTED_HEADERS,
       rows   |-> << << <<"5", "A">>, <<"0", "x", "P">>, <<"A", "n", "y">>, <<"7">> >> >>],
      [header |-> EXPECTED_HEADERS,
       rows   |-> << << <<"5", "A">>, <<"5", "P">>, <<"A", "n", "y">>, <<"7">> >>,
                     << <<"5", "A">>, <<"5", "Q">>, <<"A", "n", "y">>, <<"7">> >> >>] }
    \cup DelaySources \cup TypeSources \cup HeaderSources \cup RowCheckSources
    \cup DelayCheckSources \cup CaseSources \cup DelayFormatSources

Sources ==
    { [header |-> EXPECTED_HEADERS, rows |-> rs] : rs \in SeqsUpTo(RowPool, MaxRows) }
    \cup OddSources

NoSource ==
    [header |-> <<>>, rows |-> <<>>]

LOCAL_URL ==
    "ws://localhost:8000"

Urls ==
    { LOCAL_URL, "wss://services.tanssi-testnet.network/dancelight" }

\* The parsed command line: file paths, --sudo, --chopsticks, --url.
Args ==
    [ proxyFile : {"new.csv"}, proxyFileOld : {"old.csv"},
      sudo : BOOLEAN, chopsticks : BOOLEAN, url : Urls ]

\* ---------------------------------------------------------------------
\* State of a run of genesisProxyModification.ts
\* ---------------------------------------------------------------------

VARIABLES
    pc,             \* position in main()
    args,           \* parsed command line
    api,            \* state of the connection getApiFor(args) returned
    chopsticksAPI,  \* state of the second connection of the Chopsticks test
    fileNew,        \* content read from args["proxy-file"]
    fileOld,        \* content read from args["proxy-file-old"]
    dataNew,        \* validated records of the NEW source
    dataOld,        \* validated records of the OLD source
    newMap,         \* toPerGenesisMap(dataNew)
    oldMap,         \* toPerGenesisMap(dataOld)
    calls,          \* result of buildCalls
    batchTx,        \* utility.batchAll(calls)
    finalTx,        \* the transaction printed as FINAL TX HEX
    output,         \* what console.log has printed, in order
    sent,           \* transactions sent, with the state of api when sent
    error,          \* the error main() rejected with
    exitCode        \* process.exitCode

\* State of the other programs of the repository; a run of
\* genesisProxyModification.ts leaves it as it is.
VARIABLES
    script,         \* the program that runs
    toRemove,       \* first argument of a call of summarizePlan
    toAdd,          \* second argument of a call of summarizePlan
    dir,            \* registration: the entries of args["proxy-dir"], as readdirSync lists them
    csvData         \* registration: data, the records main() got from the validation

\* State of the balance verification tool and of registerForCollation.
VARIABLES
    csvFile,        \* verifyBalances: the file at filePath
    chain,          \* verifyBalances: the free balances and the total issuance on chain
    csvRecords,     \* verifyBalances: records, the parsed rows
    rowIndex,       \* verifyBalances: index + 1 of the row the loop is at
    MismatchesFound, \* verifyBalances: the flag of the same name
    totalCsvBalance, \* verifyBalances: the sum of the balances read so far
    csvAddresses,   \* verifyBalances: the addresses read so far
    rawSpec,        \* registerForCollation: the parsed chain specification
    txs             \* registerForCollation: the calls collected for the batch

summaryVars ==
    <<toRemove, toAdd>>

balanceVars ==
    <<csvFile, chain, csvRecords, rowIndex, MismatchesFound, totalCsvBalance,
      csvAddresses>>

collationVars ==
    <<rawSpec, txs>>

otherVars ==
    <<script, toRemove, toAdd, dir, csvData, balanceVars, collationVars>>

\* The variables of genesisProxyModification.ts that no other program has.
modificationVars ==
    <<fileOld, dataNew, dataOld, newMap, oldMap, batchTx>>

vars ==
    <<pc, args, api, chopsticksAPI, fileNew, fileOld, dataNew, dataOld,
      newMap, oldMap, calls, batchTx, finalTx, output, sent, error, exitCode,
      otherVars>>

\* The state of the other programs while they do not run.
SummaryIdle ==
    /\ toRemove = <<>>
    /\ toAdd = <<>>

RegistrationIdle ==
    /\ dir = <<>>
    /\ csvData = <<>>

BalancesIdle ==
    /\ csvFile = NoSource
    /\ chain = <<>>
    /\ csvRecords = <<>>
    /\ rowIndex = 0
    /\ MismatchesFound = FALSE
    /\ totalCsvBalance = 0
    /\ csvAddresses = {}

CollationIdle ==
    /\ rawSpec = <<>>
    /\ txs = <<>>

OthersIdle ==
    /\ SummaryIdle
    /\ RegistrationIdle
    /\ BalancesIdle
    /\ CollationIdle

\* Nothing is connected, built, printed or sent, and nothing has failed.
NotConnected ==
    /\ api = "none"
    /\ chopsticksAPI = "none"
    /\ fileNew = NoSource
    /\ calls = <<>>
    /\ finalTx = NoCall
    /\ output = <<>>
    /\ sent = <<>>
    /\ error = NoError
    /\ exitCode = 0

\* The variables that genesisProxyModification.ts alone has, as they start.
ModificationIdle ==
    /\ fileOld = NoSource
    /\ dataNew = <<>>
    /\ dataOld = <<>>
    /\ newMap = <<>>
    /\ oldMap = <<>>
    /\ batchTx = NoCall

Init ==
    /\ pc = "start"
    /\ args \in Args
    /\ api = "none"
    /\ chopsticksAPI = "none"
    /\ fileNew = NoSource
    /\ fileOld = NoSource
    /\ dataNew = <<>>
    /\ dataOld = <<>>
    /\ newMap = <<>>
    /\ oldMap = <<>>
    /\ calls = <<>>
    /\ batchTx = NoCall
    /\ finalTx = NoCall
    /\ output = <<>>
    /\ sent = <<>>
    /\ error = NoError
    /\ exitCode = 0
    /\ script = "genesisProxyModification"
    /\ OthersIdle

\* main().catch(...): the error is printed and the exit code set; the
\* connections are left as they are.
Fail(e) ==
    /\ pc' = "failed"
    /\ error' = e
    /\ exitCode' = 1

\* const api = await getApiFor(args); await api.isReady;
Connect ==
    /\ pc = "start"
    /\ api' = "connected"
    /\ pc' = "validateNew"
    /\ UNCHANGED <<args, chopsticksAPI, fileNew, fileOld, dataNew, dataOld, newMap,
                   oldMap, calls, batchTx, finalTx, output, sent, error, exitCode>>
    /\ UNCHANGED otherVars

\* const dataNew = validateCSVStructure(args["proxy-file"]);
ValidateNew ==
    /\ pc = "validateNew"
    /\ \E f \in Sources :
         \E r \in {validateCSVStructure(args.proxyFile, f)} :
             /\ fileNew' = f
             /\ IF r.ok
                THEN /\ dataNew' = r.records
                     /\ pc' = "validateOld"
                     /\ UNCHANGED <<error, exitCode>>
                ELSE /\ Fail(r.error)
                     /\ UNCHANGED dataNew
    /\ UNCHANGED <<args, api, chopsticksAPI, fileOld, dataOld, newMap, oldMap,
                   calls, batchTx, finalTx, output, sent>>
    /\ UNCHANGED otherVars

\* A row-skipping recovery: a source that fails validation is taken as a
\* source without rows and the run goes on.
ValidateOldLenient ==
    /\ pc = "validateOld"
    /\ \E f \in Sources :
         \E r \in {validateCSVStructure(args.proxyFileOld, f)} :
             /\ fileOld' = f
             /\ dataOld' = (IF r.ok THEN r.records ELSE <<>>)
             /\ pc' = "mapNew"
    /\ UNCHANGED <<args, api, chopsticksAPI, fileNew, dataNew, newMap, oldMap,
                   calls, batchTx, finalTx, output, sent, error, exitCode>>
    /\ UNCHANGED otherVars

\* const dataOld = validateCSVStructure(args["proxy-file-old"]);
ValidateOld ==
    /\ pc = "validateOld"
    /\ \E f \in Sources :
         \E r \in {validateCSVStructure(args.proxyFileOld, f)} :
             /\ fileOld' = f
             /\ IF r.ok
                THEN /\ dataOld' = r.records
                     /\ pc' = "mapNew"
                     /\ UNCHANGED <<error, exitCode>>
                ELSE /\ Fail(r.error)
                     /\ UNCHANGED dataOld
    /\ UNCHANGED <<args, api, chopsticksAPI, fileNew, dataNew, newMap, oldMap,
                   calls, batchTx, finalTx, output, sent>>
    /\ UNCHANGED otherVars

\* const newMap = toPerGenesisMap(dataNew);
MapNew ==
    /\ pc = "mapNew"
    /\ \E r \in {toPerGenesisMap(dataNew)} :
           IF r.ok
           THEN /\ newMap' = r.map
                /\ pc' = "mapOld"
                /\ UNCHANGED <<error, exitCode>>
           ELSE /\ Fail(r.error)
                /\ UNCHANGED newMap
    /\ UNCHANGED <<args, api, chopsticksAPI, fileNew, fileOld, dataNew, dataOld,
                   oldMap, calls, batchTx, finalTx, output, sent>>
    /\ UNCHANGED otherVars

\* const oldMap = toPerGenesisMap(dataOld);
MapOld ==
    /\ pc = "mapOld"
    /\ \E r \in {toPerGenesisMap(dataOld)} :
           IF r.ok
           THEN /\ oldMap' = r.map
                /\ pc' = "buildCalls"
                /\ UNCHANGED <<error, exitCode>>
           ELSE /\ Fail(r.error)
                /\ UNCHANGED oldMap
    /\ UNCHANGED <<args, api, chopsticksAPI, fileNew, fileOld, dataNew, dataOld,
                   newMap, calls, batchTx, finalTx, output, sent>>
    /\ UNCHANGED otherVars

\* One console.log line: its fixed text and the transaction whose hex it shows.
Line(text, tx) ==
    [text |-> text, tx |-> tx]

\* const calls = await buildCalls(api, newMap, oldMap);
BuildCalls ==
    /\ pc = "buildCalls"
    /\ \E r \in {buildCalls(newMap, oldMap)} :
           IF r.ok
           THEN /\ calls' = r.calls
                /\ pc' = "checkEmpty"
                /\ UNCHANGED <<error, exitCode>>
           ELSE /\ Fail([NoError EXCEPT !.kind = "BuildError"])
                /\ UNCHANGED calls
    /\ UNCHANGED <<args, api, chopsticksAPI, fileNew, fileOld, dataNew, dataOld,
                   newMap, oldMap, batchTx, finalTx, output, sent>>
    /\ UNCHANGED otherVars

\* if (calls.length === 0) { log; await api.disconnect(); return; }
NothingToDo ==
    /\ pc = "checkEmpty"
    /\ Len(calls) = 0
    /\ output' = Append(output, Line("Nothing to do", NoCall))
    /\ api' = "disconnected"
    /\ pc' = "done"
    /\ UNCHANGED <<args, chopsticksAPI, fileNew, fileOld, dataNew, dataOld, newMap,
                   oldMap, calls, batchTx, finalTx, sent, error, exitCode>>
    /\ UNCHANGED otherVars

\* const batchTx = await api.tx.utility.batchAll(calls);
BuildBatch ==
    /\ pc = "checkEmpty"
    /\ Len(calls) # 0
    /\ batchTx' = batchAll(calls)
    /\ pc' = "wrap"
    /\ UNCHANGED <<args, api, chopsticksAPI, fileNew, fileOld, dataNew, dataOld,
                   newMap, oldMap, calls, finalTx, output, sent, error, exitCode>>
    /\ UNCHANGED otherVars

\* The final transaction main() builds from the outer batch.
FinalTxOf(a, batch) ==
    sudo(batch)

\* const finalTx = await api.tx.sudo.sudo(batchTx);
WrapFinal ==
    /\ pc = "wrap"
    /\ finalTx' = FinalTxOf(args, batchTx)
    /\ pc' = "emit"
    /\ UNCHANGED <<args, api, chopsticksAPI, fileNew, fileOld, dataNew, dataOld,
                   newMap, oldMap, calls, batchTx, output, sent, error, exitCode>>
    /\ UNCHANGED otherVars

\* console.log of the batch hex and of the final hex.
EmitHex ==
    /\ pc = "emit"
    /\ output' = output \o <<Line("BATCH TX HEX", batchTx),
                             Line("FINAL TX HEX", finalTx)>>
    /\ pc' = "chopsticks"
    /\ UNCHANGED <<args, api, chopsticksAPI, fileNew, fileOld, dataNew, dataOld,
                   newMap, oldMap, calls, batchTx, finalTx, sent, error, exitCode>>
    /\ UNCHANGED otherVars

\* The condition of the Chopsticks test.
ChopsticksRequested(a) ==
    a.chopsticks /\ a.sudo /\ a.url = LOCAL_URL

\* const chopsticksAPI = await getApiFor({url}); query sudo.key; log it.
ChopsticksConnect ==
    /\ pc = "chopsticks"
    /\ ChopsticksRequested(args)
    /\ chopsticksAPI' = "connected"
    /\ output' = output \o <<Line("Chopsticks Testing", NoCall), Line("Sudo", NoCall)>>
    /\ pc' = "send"
    /\ UNCHANGED <<args, api, fileNew, fileOld, dataNew, dataOld, newMap, oldMap,
                   calls, batchTx, finalTx, sent, error, exitCode>>
    /\ UNCHANGED otherVars

\* await signFakeWithApi(chopsticksAPI, finalTx, sudo); await finalTx.send();
\* finalTx was built on api, so it is sent over that connection.
ChopsticksSend ==
    /\ pc = "send"
    /\ sent' = Append(sent, [tx |-> finalTx, api |-> api])
    /\ pc' = "chopsticksDone"
    /\ UNCHANGED <<args, api, chopsticksAPI, fileNew, fileOld, dataNew, dataOld,
                   newMap, oldMap, calls, batchTx, finalTx, output, error, exitCode>>
    /\ UNCHANGED otherVars

\* log "Chopsticks Test Done"; await chopsticksAPI.disconnect();
ChopsticksDisconnect ==
    /\ pc = "chopsticksDone"
    /\ output' = Append(output, Line("Chopsticks Test Done", NoCall))
    /\ chopsticksAPI' = "disconnected"
    /\ pc' = "disconnect"
    /\ UNCHANGED <<args, api, fileNew, fileOld, dataNew, dataOld, newMap, oldMap,
                   calls, batchTx, finalTx, sent, error, exitCode>>
    /\ UNCHANGED otherVars

\* else if (args["chopsticks"]) { log "Skipping Chopsticks test" }
SkipChopsticks ==
    /\ pc = "chopsticks"
    /\ ~ChopsticksRequested(args)
    /\ args.chopsticks
    /\ output' = Append(output, Line("Skipping Chopsticks test", NoCall))
    /\ pc' = "disconnect"
    /\ UNCHANGED <<args, api, chopsticksAPI, fileNew, fileOld, dataNew, dataOld,
                   newMap, oldMap, calls, batchTx, finalTx, sent, error, exitCode>>
    /\ UNCHANGED otherVars

\* Neither branch of the Chopsticks conditional is taken.
NoChopsticks ==
    /\ pc = "chopsticks"
    /\ ~args.chopsticks
    /\ pc' = "disconnect"
    /\ UNCHANGED <<args, api, chopsticksAPI, fileNew, fileOld, dataNew, dataOld,
                   newMap, oldMap, calls, batchTx, finalTx, output, sent, error,
                   exitCode>>
    /\ UNCHANGED otherVars

\* await api.disconnect();
Disconnect ==
    /\ pc = "disconnect"
    /\ api' = "disconnected"
    /\ pc' = "done"
    /\ UNCHANGED <<args, chopsticksAPI, fileNew, fileOld, dataNew, dataOld, newMap,
                   oldMap, calls, batchTx, finalTx, output, sent, error, exitCode>>
    /\ UNCHANGED otherVars

Next ==
    \/ Connect
    \/ ValidateNew
    \/ ValidateOld
    \/ MapNew
    \/ MapOld
    \/ BuildCalls
    \/ NothingToDo
    \/ BuildBatch
    \/ WrapFinal
    \/ EmitHex
    \/ ChopsticksConnect
    \/ ChopsticksSend
    \/ ChopsticksDisconnect
    \/ SkipChopsticks
    \/ NoChopsticks
    \/ Disconnect

Spec ==
    Init /\ [][Next]_vars

\* ---------------------------------------------------------------------
\* Vocabulary of the properties
\* ---------------------------------------------------------------------

\* buildCalls has returned: calls holds the plan of newMap against oldMap.
Built ==
    pc \in {"checkEmpty", "wrap", "emit", "chopsticks", "send",
            "chopsticksDone", "disconnect", "done"}

\* The AccountIds addresses decode to.
Accounts ==
    { AddressBook[i][2] : i \in DOMAIN AddressBook }

OwnerOf(entry) ==
    decodeAddress(entry.genesis).value

\* The (delegate, type, delay) a map entry declares, as an operation carries it.
TripleOf(entry) ==
    <<decodeAddress(entry.proxy).value, entry.type, BigInt(entry.delay).value>>

NoTriple ==
    <<>>

\* The entries of a mapping that belong to account o.
EntriesOf(map, o) ==
    SelectSeq(map, LAMBDA entry : OwnerOf(entry) = o)

\* A mapping as the delegation state it declares: per account the triple of
\* its record (of its last record, should it have several), or NoTriple.
LedgerOf(map) ==
    [o \in Accounts |->
        IF EntriesOf(map, o) = <<>> THEN NoTriple
        ELSE TripleOf(EntriesOf(map, o)[Len(EntriesOf(map, o))])]

\* The operations of one dispatchAs unit, each with the account it runs as.
UnitOps(unit) ==
    LET inner == unit.calls[1]
        ops   == IF inner.call = "utility.batchAll" THEN inner.calls ELSE <<inner>>
    IN  [i \in DOMAIN ops |->
            [owner |-> unit.origin, call |-> ops[i].call,
             triple |-> <<ops[i].delegate, ops[i].type, ops[i].delay>>]]

\* The operations of a plan, in emitted order.
RECURSIVE OpsOf(_)
OpsOf(plan) ==
    IF plan = <<>> THEN <<>> ELSE UnitOps(Head(plan)) \o OpsOf(Tail(plan))

OpsFor(plan, o) ==
    SelectSeq(OpsOf(plan), LAMBDA op : op.owner = o)

\* removeProxy deletes the owner's triple, addProxy sets it.
RECURSIVE ApplyOps(_, _)
ApplyOps(ledger, ops) ==
    IF ops = <<>> THEN ledger
    ELSE ApplyOps([ledger EXCEPT ![Head(ops).owner] =
                      IF Head(ops).call = "proxy.removeProxy" THEN NoTriple
                      ELSE Head(ops).triple],
                  Tail(ops))

\* ---------------------------------------------------------------------
\* C1
\* ---------------------------------------------------------------------

\* C1 (as claimed): applying the operations emitted by buildCalls(NEW, OLD) to
\* the delegation state OLD declares, in emitted order, yields exactly the
\* state NEW declares.
\* Refuted: with Alice written "5A" in OLD and "0xA" in NEW, the plan adds
\* under Signed(Alice) first and removes under Signed(Alice) second, which
\* leaves Alice without a delegation.
C1_Convergence ==
    Built => ApplyOps(LedgerOf(oldMap), OpsOf(calls)) = LedgerOf(newMap)

\* ---------------------------------------------------------------------
\* C2
\* ---------------------------------------------------------------------

\* C2 (as claimed): the final transaction is the outer batch wrapped in
\* sudo.sudo if --sudo was given, and the bare outer batch if it was not.
\* Refuted: main() wraps the batch whatever args.sudo is.
C2_SudoOnlyOnRequest ==
    finalTx # NoCall =>
        finalTx = (IF args.sudo THEN sudo(batchTx) ELSE batchTx)

\* ---------------------------------------------------------------------
\* C3
\* ---------------------------------------------------------------------

ValidationErrorKinds ==
    {"ParseError", "EmptyFile", "HeaderMismatch", "MissingField",
     "InvalidGenesisAddress", "InvalidProxyAddress", "UnknownProxyType",
     "InvalidDelay", "DuplicateGenesis"}

ValidationFailed ==
    pc = "failed" /\ error.kind \in ValidationErrorKinds

\* Both sources pass validateCSVStructure and toPerGenesisMap.
SourcesAccepted ==
    /\ validateCSVStructure(args.proxyFile, fileNew).ok
    /\ validateCSVStructure(args.proxyFileOld, fileOld).ok
    /\ toPerGenesisMap(validateCSVStructure(args.proxyFile, fileNew).records).ok
    /\ toPerGenesisMap(validateCSVStructure(args.proxyFileOld, fileOld).records).ok

NothingAssembled ==
    /\ calls = <<>>
    /\ batchTx = NoCall
    /\ finalTx = NoCall
    /\ output = <<>>
    /\ sent = <<>>

\* C3 (as claimed): a validation or canonicalization error aborts the run
\* before any operation is assembled and before any network interaction: no
\* connection is opened until both sources are validated and canonicalized.
\* Refuted: main() connects first, so the connection is open when the error
\* is raised.
C3_NoConnectionBeforeValidation ==
    /\ ValidationFailed => (NothingAssembled /\ api = "none" /\ chopsticksAPI = "none")
    /\ api # "none" => SourcesAccepted

\* C3 (amended): a validation or canonicalization error aborts the run before
\* any operation is assembled, printed or sent, with exit code 1, and whatever
\* is assembled comes from two accepted sources; the connection main() opens
\* first is the only network interaction by then and is still open.
C3_AbortBeforeAssembly ==
    /\ ValidationFailed =>
          /\ NothingAssembled
          /\ exitCode = 1
          /\ api = "connected"
          /\ chopsticksAPI = "none"
    /\ (Built \/ ~NothingAssembled) => SourcesAccepted

\* C3 witness: the OLD source is rejected after the NEW source was accepted.
C3_Witness ==
    /\ ValidationFailed
    /\ dataNew # <<>>
    /\ fileOld # NoSource
    /\ ~validateCSVStructure(args.proxyFileOld, fileOld).ok

\* ---------------------------------------------------------------------
\* C4 - C7
\* ---------------------------------------------------------------------

Present(map, o) ==
    EntriesOf(map, o) # <<>>

\* The triples a mapping declares for account o.
TriplesOf(map, o) ==
    { TripleOf(map[i]) : i \in { j \in DOMAIN map : OwnerOf(map[j]) = o } }

Op(owner, call, triple) ==
    [owner |-> owner, call |-> call, triple |-> triple]

\* C4 (as claimed): an owner with one record in OLD and one in NEW that
\* differ gets exactly removeProxy(OLD's triple) followed by addProxy(NEW's
\* triple), and no other operation.
\* Refuted through C10: written "5A" in OLD and "0xA" in NEW, Alice gets the
\* addProxy first, in a unit of its own, and the removeProxy second.
C4_ReplacedOwner ==
    Built =>
        \A o \in Accounts :
            ( /\ Len(EntriesOf(oldMap, o)) = 1
              /\ Len(EntriesOf(newMap, o)) = 1
              /\ LedgerOf(oldMap)[o] # LedgerOf(newMap)[o] )
            => OpsFor(calls, o) =
                   << Op(o, "proxy.removeProxy", LedgerOf(oldMap)[o]),
                      Op(o, "proxy.addProxy", LedgerOf(newMap)[o]) >>

\* C5 (as claimed): an owner present in NEW only gets exactly one addProxy
\* and no removeProxy, an owner present in OLD only exactly one removeProxy
\* and no addProxy.
\* Refuted through C10: with rows for "5A" and "0xA" in NEW and none in OLD,
\* Alice gets two addProxy.
C5_AddedOrRemovedOwner ==
    Built =>
        \A o \in Accounts :
            /\ (Present(newMap, o) /\ ~Present(oldMap, o))
                  => OpsFor(calls, o) = << Op(o, "proxy.addProxy", LedgerOf(newMap)[o]) >>
            /\ (Present(oldMap, o) /\ ~Present(newMap, o))
                  => OpsFor(calls, o) = << Op(o, "proxy.removeProxy", LedgerOf(oldMap)[o]) >>

\* OLD and NEW declare the same owners with the same triples.
SameDeclarations ==
    \A o \in Accounts : TriplesOf(oldMap, o) = TriplesOf(newMap, o)

\* C6 (as claimed): when OLD and NEW contain the same owners with the same
\* triples the plan is empty, and on an empty plan the run reports "nothing
\* to do", succeeds, builds no batch, prints no transaction and sends nothing.
\* Refuted through C10: Alice with the same triple, written "0xA" in OLD and
\* "5A" in NEW, gets an addProxy and a removeProxy.
C6_NoOp ==
    /\ (Built /\ SameDeclarations) => calls = <<>>
    /\ (pc = "done" /\ calls = <<>>) =>
          /\ output = <<Line("Nothing to do", NoCall)>>
          /\ batchTx = NoCall
          /\ finalTx = NoCall
          /\ sent = <<>>
          /\ exitCode = 0

UnitsOf(plan, o) ==
    { i \in DOMAIN plan : plan[i].origin = o }

\* A unit holds its owner's single operation directly, or the batchAll of
\* its two operations.
WellFormedUnit(unit) ==
    /\ unit.call = "utility.dispatchAs"
    /\ unit.origin \in Accounts
    /\ LET inner == unit.calls[1]
       IN  \/ inner.call \in {"proxy.addProxy", "proxy.removeProxy"}
           \/ /\ inner.call = "utility.batchAll"
              /\ Len(inner.calls) = 2
              /\ inner.calls[1].call = "proxy.removeProxy"
              /\ inner.calls[2].call = "proxy.addProxy"

\* C7 (as claimed): every owner whose record differs between OLD and NEW is
\* in exactly one unit, unchanged owners are in none, and each unit is a
\* dispatchAs Signed(owner) of the single operation or of the inner batch of
\* the owner's two operations.
\* Refuted through C10: written "5A" in OLD and "0xA" in NEW, Alice is in
\* two units.
C7_OneUnitPerChangedOwner ==
    Built =>
        /\ \A o \in Accounts :
              Cardinality(UnitsOf(calls, o)) =
                  (IF TriplesOf(oldMap, o) # TriplesOf(newMap, o) THEN 1 ELSE 0)
        /\ \A i \in DOMAIN calls :
              /\ WellFormedUnit(calls[i])
              /\ Len(UnitOps(calls[i])) = Len(OpsFor(calls, calls[i].origin))

\* ---------------------------------------------------------------------
\* C8
\* ---------------------------------------------------------------------

Perms(n) ==
    { f \in [1..n -> 1..n] : \A i, j \in 1..n : f[i] = f[j] => i = j }

\* The source file with its rows in another order.
Reorderings(file) ==
    { [header |-> file.header,
       rows   |-> [i \in DOMAIN file.rows |-> file.rows[f[i]]]] :
      f \in Perms(Len(file.rows)) }

MapOf(filePath, file) ==
    toPerGenesisMap(validateCSVStructure(filePath, file).records).map

\* The plan main() builds from the two source files.
PlanOf(new, old) ==
    buildCalls(MapOf(args.proxyFile, new), MapOf(args.proxyFileOld, old)).calls

Origins(plan) ==
    [i \in DOMAIN plan |-> plan[i].origin]

\* C8 (as claimed): when buildCalls has returned, the order of the units is
\* the one every reordering of the rows of the NEW file, and every reordering
\* of the rows of the OLD file, leads to.
\* Refuted: the units follow the order of the rows.
C8_OrderIndependentOfRows ==
    pc = "checkEmpty" =>
        /\ \A new \in Reorderings(fileNew) : PlanOf(new, fileOld) = calls
        /\ \A old \in Reorderings(fileOld) : PlanOf(fileNew, old) = calls

KeyOf(row) ==
    trim(row["Genesis Account"])

KeysOf(data) ==
    [i \in DOMAIN data |-> KeyOf(data[i])]

\* The owners in the order of their rows: NEW's rows from the top, then the
\* rows of OLD whose owner NEW does not name.
RowOrder ==
    KeysOf(dataNew) \o
    SelectSeq(KeysOf(dataOld), LAMBDA k : k \notin Range(KeysOf(dataNew)))

ChangedInRowOrder ==
    SelectSeq(RowOrder, LAMBDA k : ~Identical(newMap, oldMap, k))

\* C8 (amended): the units are in the order of the rows - the changed owners
\* of NEW's rows from the top, then the changed owners only OLD names, in
\* the order of OLD's rows - and reordering the rows of either file changes
\* the order of the units only, never which units the plan holds.
C8_OrderFollowsRows ==
    pc = "checkEmpty" =>
        /\ Origins(calls) =
               [i \in DOMAIN ChangedInRowOrder |->
                   decodeAddress(ChangedInRowOrder[i]).value]
        /\ \A new \in Reorderings(fileNew) :
               /\ Range(PlanOf(new, fileOld)) = Range(calls)
               /\ Len(PlanOf(new, fileOld)) = Len(calls)
        /\ \A old \in Reorderings(fileOld) :
               /\ Range(PlanOf(fileNew, old)) = Range(calls)
               /\ Len(PlanOf(fileNew, old)) = Len(calls)

\* C8 witness: a plan of two units that comes out in the other order when
\* the rows of the NEW file are swapped.
C8_Witness ==
    /\ pc = "checkEmpty"
    /\ Len(calls) = 2
    /\ \E new \in Reorderings(fileNew) :
           PlanOf(new, fileOld) = <<calls[2], calls[1]>>

\* ---------------------------------------------------------------------
\* C9, C10
\* ---------------------------------------------------------------------

SharedOwner(data) ==
    \E i, j \in DOMAIN data : i < j /\ KeyOf(data[i]) = KeyOf(data[j])

\* The first row whose owner address an earlier row has.
FirstRepeat(data) ==
    CHOOSE j \in DOMAIN data :
        /\ \E i \in 1..(j - 1) : KeyOf(data[i]) = KeyOf(data[j])
        /\ \A k \in 1..(j - 1) :
               ~\E i \in 1..(k - 1) : KeyOf(data[i]) = KeyOf(data[k])

RejectsDuplicate(data) ==
    SharedOwner(data) =>
        /\ ~toPerGenesisMap(data).ok
        /\ toPerGenesisMap(data).map = <<>>
        /\ toPerGenesisMap(data).error.kind = "DuplicateGenesis"
        /\ toPerGenesisMap(data).error.address = KeyOf(data[FirstRepeat(data)])

\* C9: toPerGenesisMap fails on a source with two rows that have the same
\* owner address, identical or different, with an error that names that
\* address; it returns no mapping in which one row replaced or was merged
\* with the other, and the run builds nothing from such a source.
C9_DuplicateOwnerRejected ==
    /\ RejectsDuplicate(dataNew)
    /\ RejectsDuplicate(dataOld)
    /\ SharedOwner(dataNew) =>
          (newMap = <<>> /\ calls = <<>> /\ pc \in {"validateOld", "mapNew", "failed"})
    /\ SharedOwner(dataOld) =>
          (oldMap = <<>> /\ calls = <<>> /\ pc \in {"mapNew", "mapOld", "failed"})
    /\ newMap # <<>> => Len(newMap) = Len(dataNew)
    /\ oldMap # <<>> => Len(oldMap) = Len(dataOld)

\* C9 witness: the run has failed on an OLD source whose two rows have the
\* same owner address and different delegates.
C9_Witness ==
    /\ pc = "failed"
    /\ error.kind = "DuplicateGenesis"
    /\ Len(dataOld) = 2
    /\ KeyOf(dataOld[1]) = KeyOf(dataOld[2])
    /\ dataOld[1] # dataOld[2]
    /\ error.address = KeyOf(dataOld[2])

OneEntryPerAccount(map) ==
    \A i, j \in DOMAIN map :
        OwnerOf(map[i]) = OwnerOf(map[j]) => i = j

\* C10 (as claimed): no mapping toPerGenesisMap produces has two keys that
\* decode to the same AccountId.
\* Refuted: the keys are compared as text, so the rows for "5A" and "0xA",
\* both Alice, are two entries of one mapping.
C10_OneEntryPerAccount ==
    OneEntryPerAccount(newMap) /\ OneEntryPerAccount(oldMap)

\* ---------------------------------------------------------------------
\* C11 - C13
\* ---------------------------------------------------------------------

\* C11 (as claimed): a source is accepted only if its header is exactly the
\* four expected names, in that order and with that count.
\* Refuted: the header loop compares the first four names only, so the header
\* Genesis Account, Proxy Account, Proxy Type, Delay, Note is accepted.
C11_HeaderExact ==
    /\ dataNew # <<>> => fileNew.header = EXPECTED_HEADERS
    /\ dataOld # <<>> => fileOld.header = EXPECTED_HEADERS

\* The header has the four expected names in another order.
IsReordered(header) ==
    /\ Len(header) = Len(EXPECTED_HEADERS)
    /\ Range(header) = Range(EXPECTED_HEADERS)
    /\ header # EXPECTED_HEADERS

FirstDifference(header) ==
    CHOOSE i \in DOMAIN header :
        /\ header[i] # EXPECTED_HEADERS[i]
        /\ \A j \in DOMAIN header : header[j] # EXPECTED_HEADERS[j] => i <= j

HeaderMismatchAt(filePath, header, i) ==
    [NoError EXCEPT !.kind = "HeaderMismatch", !.file = filePath, !.column = i,
                    !.expected = EXPECTED_HEADERS[i], !.got = header[i]]

ReorderedRejected(filePath, file) ==
    (IsReordered(file.header) /\ file.rows # <<>>) =>
        /\ ~validateCSVStructure(filePath, file).ok
        /\ validateCSVStructure(filePath, file).error =
               HeaderMismatchAt(filePath, file.header, FirstDifference(file.header))
        /\ pc = "failed"
        /\ error = validateCSVStructure(filePath, file).error

\* The source with its columns in another order.
ReorderColumns(file, f) ==
    [header |-> [i \in DOMAIN file.header |-> file.header[f[i]]],
     rows   |-> [r \in DOMAIN file.rows |->
                    [i \in DOMAIN file.header |-> file.rows[r][f[i]]]]]

C13_EmptyDelayRejected ==
    /\ \A i \in DOMAIN dataNew : dataNew[i]["Delay"] # <<>>
    /\ \A i \in DOMAIN dataOld : dataOld[i]["Delay"] # <<>>

\* ---------------------------------------------------------------------
\* C14
\* ---------------------------------------------------------------------

\* C14 (as claimed): once both sources are validated and canonicalized,
\* buildCalls returns its calls without throwing; the conversion of every
\* accepted delay to an integer argument succeeds.
\* Refuted: the Delay "1e21" passes the delay test, is stored as "1e+21",
\* and BigInt("1e+21") throws.
C14_AssemblyCannotFail ==
    /\ pc = "buildCalls" =>
          /\ \A i \in DOMAIN newMap : BigInt(newMap[i].delay).ok
          /\ \A i \in DOMAIN oldMap : BigInt(oldMap[i].delay).ok
          /\ buildCalls(newMap, oldMap).ok
    /\ pc = "failed" => error.kind # "BuildError"

\* ---------------------------------------------------------------------
\* C15
\* ---------------------------------------------------------------------

\* NEW = {Bob: (Quin, Staking, 100)}.
StakingSource ==
    [header |-> EXPECTED_HEADERS,
     rows   |-> << << <<"5", "B">>, <<"5", "Q">>, <<"S", "t", "a", "k", "i", "n", "g">>,
                      <<"1", "0", "0">> >> >>]

StakingUnit ==
    dispatchAs("Bob", addProxy("Quin", <<"S", "t", "a", "k", "i", "n", "g">>,
                               <<"1", "0", "0">>))

\* The OLD source has been read and has no data row.
OldDeclaresNothing ==
    fileOld # NoSource /\ fileOld.rows = <<>>

\* C15 (as claimed): with an OLD source that declares no delegation and NEW =
\* {Bob: (Quin, Staking, 100)} the run does not fail and its plan is exactly
\* the one unit dispatchAs(Bob, addProxy(Quin, Staking, 100)).
\* Refuted: an OLD source without data rows is rejected as empty.
C15_EndToEndAddition ==
    (fileNew = StakingSource /\ OldDeclaresNothing) =>
        /\ pc # "failed"
        /\ Built => calls = <<StakingUnit>>

\* C15 (amended): with NEW = {Bob: (Quin, Staking, 100)} and an OLD source
\* without data rows, the run fails on the OLD source with the empty-file
\* error and builds nothing; buildCalls, given NEW's mapping and an empty
\* OLD mapping, returns exactly the one unit
\* dispatchAs(Bob, addProxy(Quin, Staking, 100)).
C15_EmptyOldRejected ==
    (fileNew = StakingSource /\ OldDeclaresNothing) =>
        /\ pc = "failed"
        /\ error = [NoError EXCEPT !.kind = "EmptyFile", !.file = args.proxyFileOld]
        /\ NothingAssembled
        /\ newMap = <<>> /\ oldMap = <<>>
        /\ toPerGenesisMap(dataNew).ok
        /\ buildCalls(toPerGenesisMap(dataNew).map, <<>>) =
               [ok |-> TRUE, calls |-> <<StakingUnit>>]

\* C15 witness: the run has failed on the OLD source without data rows,
\* NEW being {Bob: (Quin, Staking, 100)}.
C15_Witness ==
    /\ pc = "failed"
    /\ fileNew = StakingSource
    /\ fileOld = [header |-> EXPECTED_HEADERS, rows |-> <<>>]
    /\ error.kind = "EmptyFile"

\* ---------------------------------------------------------------------
\* C16
\* ---------------------------------------------------------------------

Printed(text) ==
    \E i \in DOMAIN output : output[i].text = text

\* C16 (as claimed): a run that passed validation and ended has printed the
\* plan summary; for identical OLD and NEW it has printed it next to the
\* report of the empty plan.
\* Refuted: main() never calls summarizePlan, so no run prints a summary.
C16_SummaryPrinted ==
    pc = "done" =>
        /\ Printed(summarizePlan(<<>>, <<>>).text)
        /\ calls = <<>> => Printed("Nothing to do")

\* ---------------------------------------------------------------------
\* C17
\* ---------------------------------------------------------------------

\* The errors a data row causes.
RowErrorKinds ==
    {"MissingField", "InvalidGenesisAddress", "InvalidProxyAddress",
     "UnknownProxyType", "InvalidDelay", "DuplicateGenesis"}

\* C17 (as claimed): the error of a run that failed in validateCSVStructure
\* or toPerGenesisMap names the source file it came from and, when a data
\* row caused it, that row's number, the header being line 1.
\* Refuted: the unknown-proxy-type error carries the raw value only, and
\* the duplicate error the address only.
C17_ErrorsLocated ==
    (ValidationFailed /\ error.kind # "ParseError") =>
        /\ error.file \in {args.proxyFile, args.proxyFileOld}
        /\ fileOld = NoSource => error.file = args.proxyFile
        /\ error.kind \in RowErrorKinds =>
              error.line \in 2..(Len(fileNew.rows) + Len(fileOld.rows) + 1)

\* ---------------------------------------------------------------------
\* C18
\* ---------------------------------------------------------------------

\* The spelling without spaces, hyphens and underscores, in lower case.
Squash(t) ==
    [i \in DOMAIN SelectSeq(t, LAMBDA c : c \notin {" ", "-", "_"}) |->
        LowerChar(SelectSeq(t, LAMBDA c : c \notin {" ", "-", "_"})[i])]

\* The synonym table covers the spelling.
Covered(t) ==
    \E i \in DOMAIN synonyms : synonyms[i][1] = Squash(t)

TagOf(t) ==
    synonyms[CHOOSE i \in DOMAIN synonyms : synonyms[i][1] = Squash(t)][2]

FlipCase(c) ==
    IF LowerChar(c) # c THEN LowerChar(c) ELSE UpperChar(c)

\* Other spellings of t: in upper case, in lower case, with the case of one
\* letter changed, with a space, hyphen or underscore put in, with spaces
\* around.
Variants(t) ==
    { t, [i \in DOMAIN t |-> UpperChar(t[i])], [i \in DOMAIN t |-> LowerChar(t[i])],
      <<" ">> \o t \o <<" ">> }
    \cup { [t EXCEPT ![i] = FlipCase(t[i])] : i \in DOMAIN t }
    \cup { SubSeq(t, 1, i) \o <<sep>> \o SubSeq(t, i + 1, Len(t)) :
           i \in 1..(Len(t) - 1), sep \in {" ", "-", "_"} }

\* The Proxy Type cells of a source with the expected header.
TypeCells(file) ==
    IF file.header = EXPECTED_HEADERS
    THEN { file.rows[i][3] : i \in DOMAIN file.rows }
    ELSE {}

Chars(str) ==
    CASE str = "non-transfer" -> <<"n", "o", "n", "-", "t", "r", "a", "n", "s", "f", "e", "r">>
      [] str = "NonTransfer"  -> <<"N", "o", "n", "T", "r", "a", "n", "s", "f", "e", "r">>
      [] str = "nontransfer"  -> <<"n", "o", "n", "t", "r", "a", "n", "s", "f", "e", "r">>
      [] str = "pools"        -> <<"p", "o", "o", "l", "s">>
      [] str = "NominationPools" ->
             <<"N", "o", "m", "i", "n", "a", "t", "i", "o", "n", "P", "o", "o", "l", "s">>
      [] str = "not-a-real-type" ->
             <<"n", "o", "t", "-", "a", "-", "r", "e", "a", "l", "-", "t", "y", "p", "e">>

Normalized(value) ==
    [ok |-> TRUE, value |-> value, error |-> "none"]

\* The NEW source has just been read.
NewJustRead ==
    pc = "validateOld" \/ (pc = "failed" /\ fileOld = NoSource)

\* C18: when the NEW source has just been read, every other spelling (case,
\* separators) of a Proxy Type cell that the synonym table covers
\* normalizes to the table's tag - "non-transfer", "NonTransfer" and
\* "nontransfer" to NonTransfer, "pools" to NominationPools - and a cell
\* that is neither covered nor, with its first letter capitalised, a known
\* type fails with the unknown-proxy-type error, as "not-a-real-type" does;
\* a source with such a cell is not accepted.
C18_NormalizationInsensitive ==
    NewJustRead =>
        /\ \A t \in TypeCells(fileNew) : \A v \in Variants(t) :
              /\ Covered(t) => normalizeProxyType(v) = Normalized(TagOf(t))
              /\ (~Covered(v) /\ CapitalizeFirst(trim(v)) \notin KNOWN_PROXY_TYPES) =>
                    /\ ~normalizeProxyType(v).ok
                    /\ normalizeProxyType(v).error = "UnknownProxyType"
        /\ \A str \in {"non-transfer", "NonTransfer", "nontransfer"} :
              normalizeProxyType(Chars(str)) = Normalized(Chars("NonTransfer"))
        /\ normalizeProxyType(Chars("pools")) = Normalized(Chars("NominationPools"))
        /\ ~normalizeProxyType(Chars("not-a-real-type")).ok
        /\ Chars("not-a-real-type") \in TypeCells(fileNew) =>
              (pc = "failed" /\ error.kind = "UnknownProxyType"
                             /\ error.raw = Chars("not-a-real-type"))

\* C18 witness: a NEW source with the cells "non-transfer", "NonTransfer"
\* and "pools" has just been read and accepted.
C18_Witness ==
    /\ pc = "validateOld"
    /\ {Chars("non-transfer"), Chars("NonTransfer"), Chars("pools")}
           \subseteq TypeCells(fileNew)
    /\ dataNew # <<>>

\* ---------------------------------------------------------------------
\* C19
\* ---------------------------------------------------------------------

EmptyFileError(filePath) ==
    [NoError EXCEPT !.kind = "EmptyFile", !.file = filePath]

\* C19: a source without data rows, whatever its header, is rejected with
\* the empty-file error that names the file; the run fails with it, on
\* the NEW source before the OLD source is read, and no records, mapping,
\* call or output come from it.
C19_EmptySourceRejected ==
    /\ (fileNew # NoSource /\ fileNew.rows = <<>>) =>
          /\ validateCSVStructure(args.proxyFile, fileNew) =
                 ValidationFailure(EmptyFileError(args.proxyFile))
          /\ pc = "failed"
          /\ error = EmptyFileError(args.proxyFile)
          /\ fileOld = NoSource
          /\ dataNew = <<>> /\ newMap = <<>> /\ oldMap = <<>>
          /\ NothingAssembled
    /\ OldDeclaresNothing =>
          /\ validateCSVStructure(args.proxyFileOld, fileOld) =
                 ValidationFailure(EmptyFileError(args.proxyFileOld))
          /\ pc = "failed"
          /\ error = EmptyFileError(args.proxyFileOld)
          /\ dataOld = <<>> /\ newMap = <<>> /\ oldMap = <<>>
          /\ NothingAssembled

\* C19 witness: the run has failed on a NEW source that has a header of
\* three columns and no data row.
C19_Witness ==
    /\ pc = "failed"
    /\ fileNew = [header |-> <<"Genesis Account", "Proxy Account", "Proxy Type">>,
                  rows   |-> <<>>]
    /\ error.kind = "EmptyFile"
    /\ error.file = args.proxyFile

\* ---------------------------------------------------------------------
\* C20
\* ---------------------------------------------------------------------

\* The row checks in their order, by the kind of error each raises.
CheckKinds ==
    <<"MissingField", "InvalidGenesisAddress", "InvalidProxyAddress",
      "UnknownProxyType", "InvalidDelay">>

\* Row (genesis, proxy, type, delay) violates check k.
Violates(row, k) ==
    CASE k = 1 -> \E c \in 1..4 : row[c] = <<>>
      [] k = 2 -> ~decodeAddress(row[1]).ok
      [] k = 3 -> ~decodeAddress(row[2]).ok
      [] k = 4 -> ~normalizeProxyType(row[3]).ok
      [] k = 5 -> InvalidDelay(row[4])

\* The first check the row violates, 0 when it passes all of them.
FirstViolated(row) ==
    IF \E k \in DOMAIN CheckKinds : Violates(row, k)
    THEN CHOOSE k \in DOMAIN CheckKinds :
             Violates(row, k) /\ \A j \in 1..(k - 1) : ~Violates(row, j)
    ELSE 0

\* The first row that violates a check, 0 when none does.
FirstBadRow(rows) ==
    IF \E i \in DOMAIN rows : FirstViolated(rows[i]) # 0
    THEN CHOOSE i \in DOMAIN rows :
             FirstViolated(rows[i]) # 0 /\ \A j \in 1..(i - 1) : FirstViolated(rows[j]) = 0
    ELSE 0

FailsFast(filePath, file) ==
    (file.header = EXPECTED_HEADERS /\ file.rows # <<>>) =>
        \E r \in {validateCSVStructure(filePath, file)} :
        \E bad \in {FirstBadRow(file.rows)} :
            IF bad = 0
            THEN r.ok
            ELSE /\ ~r.ok
                 /\ r.error.kind = CheckKinds[FirstViolated(file.rows[bad])]
                 /\ r.error.kind # "UnknownProxyType" => r.error.line = bad + 1
                 /\ r.error.kind = "UnknownProxyType" => r.error.raw = file.rows[bad][3]

\* C20 (as claimed): of a source with the expected header, the error
\* reported is that of the first row that violates a check and, for that
\* row, of the first check it violates in the order missing field, invalid
\* owner address, invalid delegate address, unknown proxy type, invalid
\* delay; a source is accepted only when no row violates a check.
\* Refuted through C13: a row with an empty Delay cell violates the first
\* check and is passed over.
C20_FailFastOrder ==
    /\ FailsFast(args.proxyFile, fileNew)
    /\ FailsFast(args.proxyFileOld, fileOld)
    /\ (NewJustRead /\ fileNew.header = EXPECTED_HEADERS /\ fileNew.rows # <<>>) =>
          /\ pc = "failed" <=> FirstBadRow(fileNew.rows) # 0
          /\ pc = "failed" => error = validateCSVStructure(args.proxyFile, fileNew).error

\* ---------------------------------------------------------------------
\* C21
\* ---------------------------------------------------------------------

\* The text is a numeral of a finite non-negative integer; the empty text
\* is the numeral of no number.
DenotesNatural(delay) ==
    /\ delay # <<>>
    /\ With(Number(delay), LAMBDA d :
            NumberIsFinite(d) /\ NumberIsInteger(d) /\ ~LessThanZero(d))

\* The kind of a delay text that denotes no finite non-negative integer.
DelayFault(delay) ==
    With(Number(delay), LAMBDA d :
        IF delay = <<>> THEN "empty"
        ELSE IF isNaN(d) THEN "non-numeric"
        ELSE IF ~NumberIsFinite(d) THEN "non-finite"
        ELSE IF LessThanZero(d) THEN "negative"
        ELSE IF ~NumberIsInteger(d) THEN "fractional"
        ELSE "none")

\* The first row whose only fault is its delay, after rows without fault,
\* is rejected with the invalid-delay error of that row.
DelayRejected(filePath, file) ==
    (file.header = EXPECTED_HEADERS /\ file.rows # <<>>) =>
        \E r \in {validateCSVStructure(filePath, file)} :
            \A i \in DOMAIN file.rows :
                (/\ \A j \in 1..(i - 1) : FirstViolated(file.rows[j]) = 0
                 /\ \A k \in 1..4 : ~Violates(file.rows[i], k)
                 /\ DelayFault(file.rows[i][4])
                        \in {"non-numeric", "non-finite", "negative", "fractional"})
                => r = ValidationFailure(ErrorAt("InvalidDelay", filePath, i + 1))

\* C21 (as claimed): the delay of every accepted row denotes a finite
\* non-negative integer, and a row whose delay is negative, fractional,
\* not a number or not finite is rejected with the invalid-delay error of
\* that row.
\* Refuted through C13: the empty Delay cell denotes no number and is
\* accepted as 0.
C21_DelayIsNaturalNumber ==
    /\ \A i \in DOMAIN dataNew : DenotesNatural(dataNew[i]["Delay"])
    /\ \A i \in DOMAIN dataOld : DenotesNatural(dataOld[i]["Delay"])
    /\ DelayRejected(args.proxyFile, fileNew)
    /\ DelayRejected(args.proxyFileOld, fileOld)

\* ---------------------------------------------------------------------
\* C22
\* ---------------------------------------------------------------------

\* The known proxy types that the text spells, case apart.
SpelledTypes(t) ==
    { K \in KNOWN_PROXY_TYPES : toLowerCase(K) = toLowerCase(t) }

\* The text in lower case, in upper case, and as written.
CaseVariants(t) ==
    { t, toLowerCase(t), [i \in DOMAIN t |-> UpperChar(t[i])] }

\* C22 (as claimed): when the NEW source has just been read, every Proxy
\* Type cell that spells one of the twelve known types, case apart,
\* normalizes to that type, as do its all-lower-case and all-upper-case
\* spellings; the source is not rejected for its proxy type.
\* Refuted: "fastgovernance" is in no synonym and capitalising its first
\* letter gives "Fastgovernance", which is not a known type.
C22_CaseInsensitiveVocabulary ==
    NewJustRead =>
        /\ \A t \in TypeCells(fileNew) : \A K \in SpelledTypes(t) :
              \A v \in CaseVariants(t) : normalizeProxyType(v) = Normalized(K)
        /\ (\A t \in TypeCells(fileNew) : SpelledTypes(t) # {})
              => ~(pc = "failed" /\ error.kind = "UnknownProxyType")

\* ---------------------------------------------------------------------
\* C23
\* ---------------------------------------------------------------------

\* The proxy types the operations of a plan carry.
TypesOf(plan) ==
    { OpsOf(plan)[i].triple[2] : i \in DOMAIN OpsOf(plan) }

\* C23: normalizeProxyType, applied to a Proxy Type cell of the source just
\* read or to another spelling of it, returns a member of KNOWN_PROXY_TYPES
\* or fails; every type stored in a map of toPerGenesisMap and every type
\* carried by an addProxy or removeProxy of the plan is a member of
\* KNOWN_PROXY_TYPES.
C23_ClosedVocabulary ==
    /\ NewJustRead =>
          \A t \in TypeCells(fileNew) : \A v \in Variants(t) :
              \E n \in {normalizeProxyType(v)} :
                  /\ n.ok => n.value \in KNOWN_PROXY_TYPES
                  /\ ~n.ok => n.error = "UnknownProxyType"
    /\ \A i \in DOMAIN newMap : newMap[i].type \in KNOWN_PROXY_TYPES
    /\ \A i \in DOMAIN oldMap : oldMap[i].type \in KNOWN_PROXY_TYPES
    /\ TypesOf(calls) \subseteq KNOWN_PROXY_TYPES

\* A plan is built from a NEW source that spells a type "non-transfer" and
\* another "pools", and from an OLD source; its operations carry the types
\* NonTransfer and NominationPools.
C23_Witness ==
    /\ pc = "checkEmpty"
    /\ Chars("non-transfer") \in TypeCells(fileNew)
    /\ Chars("pools") \in TypeCells(fileNew)
    /\ oldMap # <<>>
    /\ { Chars("NonTransfer"), Chars("NominationPools") } \subseteq TypesOf(calls)
    /\ \E i \in DOMAIN OpsOf(calls) : OpsOf(calls)[i].call = "proxy.removeProxy"

\* ---------------------------------------------------------------------
\* C24
\* ---------------------------------------------------------------------

\* The two digit texts are equal once padded with leading zeros to the same
\* length.
SameDigits(x, y) ==
    Zeros(Len(y) - Len(x)) \o x = Zeros(Len(x) - Len(y)) \o y

\* The two delay texts denote the same non-negative integer.
SameNatural(a, b) ==
    /\ DenotesNatural(a) /\ DenotesNatural(b)
    /\ SameDigits(Number(a).int, Number(b).int)

\* The two rows differ in the writing of the delay only.
DifferInDelayFormat(new, old) ==
    /\ new["Genesis Account"] = old["Genesis Account"]
    /\ new["Proxy Account"] = old["Proxy Account"]
    /\ new["Proxy Type"] = old["Proxy Type"]
    /\ new["Delay"] # old["Delay"]
    /\ SameNatural(new["Delay"], old["Delay"])

\* The maps of both sources are built.
Mapped ==
    pc = "buildCalls" \/ Built

\* C24: once both maps are built, two rows whose delay texts denote the
\* same non-negative integer have the same stored delay, the integer in
\* decimal digits without leading zeros when it is below 1e21; and the
\* plan has no operation for an account whose one NEW row and one OLD row
\* differ in the writing of the delay only.
C24_CanonicalDelay ==
    Mapped =>
        \A i \in DOMAIN dataNew : \A j \in DOMAIN dataOld :
            /\ SameNatural(dataNew[i]["Delay"], dataOld[j]["Delay"]) =>
                  /\ newMap[i].delay = oldMap[j].delay
                  /\ Len(Number(dataNew[i]["Delay"]).int) < 22 =>
                        /\ IsDigits(newMap[i].delay)
                        /\ newMap[i].delay = StripLeadingZeros(newMap[i].delay)
            /\ (/\ Built
                 /\ DifferInDelayFormat(dataNew[i], dataOld[j])
                 /\ Len(EntriesOf(newMap, OwnerOf(newMap[i]))) = 1
                 /\ Len(EntriesOf(oldMap, OwnerOf(newMap[i]))) = 1)
                => OpsFor(calls, OwnerOf(newMap[i])) = <<>>

\* NEW declares delay "7" and OLD delay "007" for the same owner, delegate
\* and type: both are stored as "7" and the plan is empty.
C24_Witness ==
    /\ pc = "checkEmpty"
    /\ Len(dataNew) = 1 /\ Len(dataOld) = 1
    /\ dataNew[1]["Delay"] = <<"7">>
    /\ dataOld[1]["Delay"] = <<"0", "0", "7">>
    /\ DifferInDelayFormat(dataNew[1], dataOld[1])
    /\ newMap[1].delay = <<"7">> /\ oldMap[1].delay = <<"7">>
    /\ calls = <<>>

\* ---------------------------------------------------------------------
\* A call of summarizePlan
\* ---------------------------------------------------------------------

MaxAccounts ==
    11

\* The address of the i-th account of a plan, as a text.
AccountName(i) ==
    <<"5", Digits[(i \div 10) + 1], Digits[(i % 10) + 1]>>

\* Plan entries for n accounts, from the one numbered `from` on.
PlanEntries(from, n) ==
    [i \in 1..n |-> [genesis |-> AccountName(from + i - 1), proxy |-> <<"5", "P">>,
                     type |-> <<"A", "n", "y">>, delay |-> <<"7">>]]

\* The lists a call may be given: entries of consecutive accounts, and
\* such a list followed by its first entry once more.
PlanLists ==
    { PlanEntries(from, n) : from \in 1..MaxAccounts, n \in 0..MaxAccounts }
    \cup { PlanEntries(1, n) \o PlanEntries(1, 1) : n \in 1..2 }

\* The console.log lines of summarizePlan.
SummaryLines(s) ==
    << [text |-> s.text, value |-> <<>>],
       [text |-> "Accounts impacted", value |-> s.accounts],
       [text |-> "Removals | Additions", value |-> <<s.removals, s.additions>>] >>
    \o (IF s.listed THEN << [text |-> "Accounts", value |-> s.list] >> ELSE <<>>)

SummaryInit ==
    /\ script = "summarizePlan"
    /\ pc = "summarizePlan"
    /\ toRemove \in PlanLists
    /\ toAdd \in PlanLists
    /\ args = <<>>
    /\ NotConnected
    /\ ModificationIdle
    /\ RegistrationIdle
    /\ BalancesIdle
    /\ CollationIdle

\* The body of summarizePlan: the set of accounts is built and the lines
\* are printed; the two lists are read only.
Summarize ==
    /\ pc = "summarizePlan"
    /\ output' = output \o SummaryLines(summarizePlan(toRemove, toAdd))
    /\ pc' = "returned"
    /\ UNCHANGED <<args, api, chopsticksAPI, fileNew, calls, finalTx, sent, error,
                   exitCode, modificationVars, otherVars>>

SummaryNext ==
    \/ Summarize

SummarySpec ==
    SummaryInit /\ [][SummaryNext]_vars

\* ---------------------------------------------------------------------
\* C25
\* ---------------------------------------------------------------------

\* The owners that occur in the two lists.
ImpactedOwners ==
    { toRemove[i].genesis : i \in DOMAIN toRemove }
    \cup { toAdd[i].genesis : i \in DOMAIN toAdd }

\* What a returned call has printed.
SummaryReport ==
    (script = "summarizePlan" /\ pc = "returned") =>
        /\ output[1].text = "PLAN SUMMARY"
        /\ output[2] = [text |-> "Accounts impacted", value |-> Cardinality(ImpactedOwners)]
        /\ output[3] = [text |-> "Removals | Additions",
                        value |-> <<Len(toRemove), Len(toAdd)>>]
        /\ Cardinality(ImpactedOwners) <= 10 <=> Len(output) = 4
        /\ Cardinality(ImpactedOwners) > 10 <=> Len(output) = 3
        /\ Len(output) = 4 =>
              /\ output[4].text = "Accounts"
              /\ Range(output[4].value) = ImpactedOwners
              /\ Len(output[4].value) = Cardinality(ImpactedOwners)

\* C25: a call of summarizePlan prints as number of impacted owners the
\* size of the union of the owners of the removal list and of the addition
\* list (an owner in both counts once), as numbers of removals and of
\* additions the lengths of the two lists, and the list of the owners if
\* and only if they are at most 10; it leaves both lists as they were.
C25_SummarizePlan ==
    /\ []SummaryReport
    /\ [][toRemove' = toRemove /\ toAdd' = toAdd]_vars

\* A call has returned for lists that share an owner and have 10 owners
\* between them: the owners are listed.
C25_Witness ==
    /\ script = "summarizePlan" /\ pc = "returned"
    /\ \E i \in DOMAIN toRemove : \E j \in DOMAIN toAdd :
           toRemove[i].genesis = toAdd[j].genesis
    /\ Cardinality(ImpactedOwners) = 10
    /\ Len(toRemove) + Len(toAdd) > 10
    /\ Len(output) = 4

\* ---------------------------------------------------------------------
\* The registration tools: genesisProxyRegistration.ts (a directory of CSV
\* files) and the single-file registration tool
\* ---------------------------------------------------------------------

\* The row checks of the registration tools' validateCSVStructure, in the
\* order of the loop body: the Proxy Type is not looked at and the Delay
\* has only to be a number.
RegistrationRowError(row, lineNumber, filePath) ==
    LET genesis == row["Genesis Account"]
        proxy   == row["Proxy Account"]
        type    == row["Proxy Type"]
        delay   == row["Delay"]
    IN  IF genesis = <<>> \/ proxy = <<>> \/ type = <<>> \/ "Delay" \notin DOMAIN row
        THEN ErrorAt("MissingField", filePath, lineNumber)
        ELSE IF ~decodeAddress(genesis).ok
        THEN ErrorAt("InvalidGenesisAddress", filePath, lineNumber)
        ELSE IF ~decodeAddress(proxy).ok
        THEN ErrorAt("InvalidProxyAddress", filePath, lineNumber)
        ELSE IF isNaN(Number(delay))
        THEN ErrorAt("InvalidDelay", filePath, lineNumber)
        ELSE NoError

\* The row loop of the registration tools' validateCSVStructure.
RegistrationCheckRows(filePath, records) ==
    With([i \in DOMAIN records |-> RegistrationRowError(records[i], i + 1, filePath)],
         LAMBDA errs :
        IF \A i \in DOMAIN errs : errs[i] = NoError
        THEN [ok |-> TRUE, records |-> records, error |-> NoError]
        ELSE ValidationFailure(
                 errs[CHOOSE i \in DOMAIN errs :
                          errs[i] # NoError /\ \A j \in 1..(i - 1) : errs[j] = NoError]))

\* validateCSVStructure(filePath) of the registration tools: the records, or
\* the first error thrown.
RegistrationValidateCSVStructure(filePath, file) ==
    With(parse(file), LAMBDA parsed :
    With(FirstHeaderMismatch(file.header), LAMBDA bad :
        IF ~parsed.ok
        THEN ValidationFailure([NoError EXCEPT !.kind = "ParseError"])
        ELSE IF Len(parsed.records) = 0
        THEN ValidationFailure([NoError EXCEPT !.kind = "EmptyFile", !.file = filePath])
        ELSE IF bad # 0
        THEN ValidationFailure([NoError EXCEPT !.kind = "HeaderMismatch",
                                               !.file = filePath,
                                               !.column = bad,
                                               !.expected = EXPECTED_HEADERS[bad],
                                               !.got = HeaderAt(file.header, bad)])
        ELSE RegistrationCheckRows(filePath, parsed.records)))

\* utilityDispatchAsCall(api, data): one dispatchAs(addProxy) per record is
\* pushed on batchCall, which is returned; decodeAddress and BigInt throw on
\* what they cannot read.
RECURSIVE utilityDispatchAsCall(_, _)
utilityDispatchAsCall(batchCall, rows) ==
    IF rows = <<>> THEN [ok |-> TRUE, calls |-> batchCall]
    ELSE LET r             == Head(rows)
             genesisAccount == decodeAddress(r["Genesis Account"])
             proxyAccount   == decodeAddress(r["Proxy Account"])
             proxyType      == r["Proxy Type"]
             delay          == BigInt(r["Delay"])
         IN  IF ~genesisAccount.ok \/ ~proxyAccount.ok \/ ~delay.ok
             THEN [ok |-> FALSE, calls |-> <<>>]
             ELSE utilityDispatchAsCall(
                      Append(batchCall,
                             dispatchAs(genesisAccount.value,
                                        addProxy(proxyAccount.value, proxyType,
                                                 delay.value))),
                      Tail(rows))

\* The position of the last c in t, 0 when there is none.
LastIndexOf(t, c) ==
    IF \E i \in DOMAIN t : t[i] = c
    THEN CHOOSE i \in DOMAIN t : t[i] = c /\ \A j \in (i + 1)..Len(t) : t[j] # c
    ELSE 0

\* path.parse(file): the name, and the extension from the last dot on (a
\* dot that starts the file name starts no extension).
PathParse(file) ==
    With(LastIndexOf(file, "."), LAMBDA dot :
        IF dot <= 1 THEN [name |-> file, ext |-> <<>>]
        ELSE [name |-> SubSeq(file, 1, dot - 1), ext |-> SubSeq(file, dot, Len(file))])

\* The text without the digits it ends with.
StripTrailingDigits(t) ==
    IF \A i \in DOMAIN t : IsDigit(t[i]) THEN <<>>
    ELSE SubSeq(t, 1, CHOOSE i \in DOMAIN t :
                          ~IsDigit(t[i]) /\ \A j \in (i + 1)..Len(t) : IsDigit(t[j]))

\* reOld.test(name), reOld being /_old(\d+)?$/i
reOld(name) ==
    With(StripTrailingDigits(name), LAMBDA n :
        /\ Len(n) >= 4
        /\ toLowerCase(SubSeq(n, Len(n) - 3, Len(n))) = <<"_", "o", "l", "d">>)

\* A filter that keeps every .csv file, whatever its name.
IsCsvFileAnyName(file) ==
    toLowerCase(PathParse(file).ext) = <<".", "c", "s", "v">>

\* The filter of collectCSVDataFromDir.
IsCsvFile(file) ==
    /\ toLowerCase(PathParse(file).ext) = <<".", "c", "s", "v">>
    /\ ~reOld(PathParse(file).name)

GenesisAccountsFile ==
    <<"G", "e", "n", "e", "s", "i", "s", "_", "A", "c", "c", "o", "u", "n", "t", "s",
      ".", "c", "s", "v">>

\* One console.log line that names a file.
FileLine(text, file) ==
    [text |-> text, file |-> file]

\* The loop of collectCSVDataFromDir over csvFiles and the test after it.
RECURSIVE CollectLoop(_, _, _, _)
CollectLoop(directoryPath, allRecords, log, rest) ==
    IF rest = <<>>
    THEN IF allRecords = <<>>
         THEN [ok |-> FALSE, records |-> <<>>, log |-> log,
               error |-> [NoError EXCEPT !.kind = "NoValidData", !.file = directoryPath]]
         ELSE [ok |-> TRUE, records |-> allRecords, log |-> log, error |-> NoError]
    ELSE IF Head(rest).file = GenesisAccountsFile
    THEN CollectLoop(directoryPath, allRecords,
                     Append(log, FileLine("Skipping file", Head(rest).file)), Tail(rest))
    ELSE LET fullPath == <<directoryPath, Head(rest).file>>
             records  == RegistrationValidateCSVStructure(fullPath, Head(rest).source)
             parsing  == Append(log, FileLine("Parsing", Head(rest).file))
         IN  IF ~records.ok
             THEN [ok |-> FALSE, records |-> <<>>, log |-> parsing, error |-> records.error]
             ELSE CollectLoop(directoryPath, allRecords \o records.records, parsing,
                              Tail(rest))

\* collectCSVDataFromDir(directoryPath), entries being what readdirSync
\* lists: the records of all files kept, what was printed, or the error.
collectCSVDataFromDir(directoryPath, entries) ==
    With(SelectSeq(entries, LAMBDA e : IsCsvFile(e.file)), LAMBDA csvFiles :
        IF Len(csvFiles) = 0
        THEN [ok |-> FALSE, records |-> <<>>, log |-> <<>>,
              error |-> [NoError EXCEPT !.kind = "NoCsvFiles", !.file = directoryPath]]
        ELSE CollectLoop(directoryPath, <<>>, <<>>, csvFiles))

\* ---------------------------------------------------------------------
\* Inputs of the registration tools
\* ---------------------------------------------------------------------

MaxFiles ==
    3

\* Contents of files: two valid rows; the first of them alone; another valid
\* row; a row whose delay "1.5" is a number and no integer; a row with an
\* undecodable owner address; a balances file.
RegistrationTwoRows ==
    [header |-> EXPECTED_HEADERS,
     rows   |-> << << <<"5", "A">>, <<"5", "P">>, <<"A", "n", "y">>, <<"7">> >>,
                   << <<"5", "B">>, <<"5", "Q">>, <<"S", "t", "a", "k", "i", "n", "g">>,
                      <<"0">> >> >>]

RegistrationOneRow ==
    [header |-> EXPECTED_HEADERS,
     rows   |-> << << <<"5", "A">>, <<"5", "P">>, <<"A", "n", "y">>, <<"7">> >> >>]

RegistrationOldRow ==
    [header |-> EXPECTED_HEADERS,
     rows   |-> << << <<"5", "B">>, <<"5", "P">>, <<"A", "n", "y">>, <<"0", "3">> >> >>]

RegistrationFractionRow ==
    [header |-> EXPECTED_HEADERS,
     rows   |-> << << <<"5", "B">>, <<"5", "P">>, <<"A", "n", "y">>, <<"1", ".", "5">> >> >>]

RegistrationBadRow ==
    [header |-> EXPECTED_HEADERS,
     rows   |-> << << <<"z", "z">>, <<"5", "P">>, <<"A", "n", "y">>, <<"7">> >> >>]

BalancesFile ==
    [header |-> <<"Address", "Balance">>,
     rows   |-> << << <<"5", "A">>, <<"1", "0", "0">> >> >>]

RegistrationSources ==
    { RegistrationTwoRows, RegistrationOneRow, RegistrationOldRow,
      RegistrationFractionRow, RegistrationBadRow, BalancesFile,
      [header |-> EXPECTED_HEADERS, rows |-> <<>>] }

\* The files a directory may hold: a.csv, b.CSV, a_old.csv, b_OLD12.csv,
\* Genesis_Accounts.csv, notes.txt, c.csv, d.csv.
DirPool ==
    { [file |-> <<"a", ".", "c", "s", "v">>, source |-> RegistrationTwoRows],
      [file |-> <<"b", ".", "C", "S", "V">>, source |-> RegistrationOneRow],
      [file |-> <<"a", "_", "o", "l", "d", ".", "c", "s", "v">>,
       source |-> RegistrationOldRow],
      [file |-> <<"b", "_", "O", "L", "D", "1", "2", ".", "c", "s", "v">>,
       source |-> RegistrationBadRow],
      [file |-> GenesisAccountsFile, source |-> BalancesFile],
      [file |-> <<"n", "o", "t", "e", "s", ".", "t", "x", "t">>,
       source |-> RegistrationOldRow],
      [file |-> <<"c", ".", "c", "s", "v">>, source |-> RegistrationFractionRow],
      [file |-> <<"d", ".", "c", "s", "v">>, source |-> RegistrationBadRow] }

\* Directory listings: up to MaxFiles files, no file twice.
Dirs ==
    { l \in SeqsUpTo(DirPool, MaxFiles) :
          \A i, j \in DOMAIN l : i # j => l[i].file # l[j].file }

\* The command line of genesisProxyRegistration.ts.
RegistrationArgs ==
    [ proxyDir : {"proxies"}, sudo : BOOLEAN, chopsticks : BOOLEAN, url : Urls ]

\* The command line of the single-file tool: --chopsticks is an endpoint,
\* "" when the option is not given.
FileRegistrationArgs ==
    [ proxyFile : {"proxies.csv"}, sudo : BOOLEAN, chopsticks : {"", LOCAL_URL},
      url : Urls ]

RegistrationInit ==
    /\ script = "genesisProxyRegistration"
    /\ pc = "getApi"
    /\ args \in RegistrationArgs
    /\ dir \in Dirs
    /\ csvData = <<>>
    /\ NotConnected
    /\ ModificationIdle
    /\ SummaryIdle
    /\ BalancesIdle
    /\ CollationIdle

FileRegistrationInit ==
    /\ script = "singleFileRegistration"
    /\ pc = "getApi"
    /\ args \in FileRegistrationArgs
    /\ dir = <<>>
    /\ csvData = <<>>
    /\ NotConnected
    /\ ModificationIdle
    /\ SummaryIdle
    /\ BalancesIdle
    /\ CollationIdle

\* ---------------------------------------------------------------------
\* main() of genesisProxyRegistration.ts
\* ---------------------------------------------------------------------

\* const api = await getApiFor(args); await api.isReady;
RegistrationGetApi ==
    /\ script = "genesisProxyRegistration"
    /\ pc = "getApi"
    /\ api' = "connected"
    /\ pc' = "collect"
    /\ UNCHANGED <<args, chopsticksAPI, fileNew, calls, finalTx, output, sent, error,
                   exitCode, modificationVars, otherVars>>

\* const data = collectCSVDataFromDir(args["proxy-dir"]);
\* A thrown error is printed by main().catch and the process exits.
RegistrationCollect ==
    /\ script = "genesisProxyRegistration"
    /\ pc = "collect"
    /\ \E r \in {collectCSVDataFromDir(args.proxyDir, dir)} :
           /\ output' = output \o r.log
           /\ IF r.ok
              THEN /\ csvData' = r.records
                   /\ pc' = "dispatchAs"
                   /\ UNCHANGED error
              ELSE /\ pc' = "failed"
                   /\ error' = r.error
                   /\ UNCHANGED csvData
    /\ UNCHANGED <<args, api, chopsticksAPI, fileNew, calls, finalTx, sent, exitCode,
                   modificationVars, script, summaryVars, dir, balanceVars,
                   collationVars>>

\* const batchData = await utilityDispatchAsCall(api, data);
RegistrationDispatchAs ==
    /\ script = "genesisProxyRegistration"
    /\ pc = "dispatchAs"
    /\ \E r \in {utilityDispatchAsCall(calls, csvData)} :
           IF r.ok
           THEN /\ calls' = r.calls
                /\ pc' = "finalTx"
                /\ UNCHANGED error
           ELSE /\ pc' = "failed"
                /\ error' = [NoError EXCEPT !.kind = "BuildError"]
                /\ UNCHANGED calls
    /\ UNCHANGED <<args, api, chopsticksAPI, fileNew, finalTx, output, sent, exitCode,
                   modificationVars, otherVars>>

\* The final transaction of the registration tools: the batch, inside sudo
\* when --sudo is given.
RegistrationFinalTxOf(a, batchData) ==
    IF a.sudo THEN sudo(batchAll(batchData)) ELSE batchAll(batchData)

\* let finalTx = batchAll(batchData); if (args["sudo"]) finalTx = sudo(finalTx);
\* and the final transaction is printed.
RegistrationFinalTx ==
    /\ script = "genesisProxyRegistration"
    /\ pc = "finalTx"
    /\ finalTx' = RegistrationFinalTxOf(args, calls)
    /\ output' = output \o (IF args.sudo THEN <<Line("USING SUDO", NoCall)>> ELSE <<>>)
                        \o <<Line("FINAL TX", RegistrationFinalTxOf(args, calls))>>
    /\ pc' = "testing"
    /\ UNCHANGED <<args, api, chopsticksAPI, fileNew, calls, sent, error, exitCode,
                   modificationVars, otherVars>>

\* The same test with --sudo left out of it.
RegistrationChopsticksWithoutSudo(a) ==
    a.chopsticks /\ a.url = LOCAL_URL

\* The condition of the Chopsticks test of genesisProxyRegistration.ts.
RegistrationChopsticksRequested(a) ==
    a.chopsticks /\ a.sudo /\ a.url = LOCAL_URL

\* const chopsticksAPI = await getApiFor({url}); query sudo.key; log it.
RegistrationChopsticksConnect ==
    /\ script = "genesisProxyRegistration"
    /\ pc = "testing"
    /\ RegistrationChopsticksRequested(args)
    /\ chopsticksAPI' = "connected"
    /\ output' = output \o <<Line("Chopsticks Testing", NoCall), Line("Sudo", NoCall)>>
    /\ pc' = "signAndSend"
    /\ UNCHANGED <<args, api, fileNew, calls, finalTx, sent, error, exitCode,
                   modificationVars, otherVars>>

\* await signFakeWithApi(chopsticksAPI, finalTx, sudo); await finalTx.send();
RegistrationChopsticksSend ==
    /\ script = "genesisProxyRegistration"
    /\ pc = "signAndSend"
    /\ sent' = Append(sent, [tx |-> finalTx, api |-> api])
    /\ pc' = "tested"
    /\ UNCHANGED <<args, api, chopsticksAPI, fileNew, calls, finalTx, output, error,
                   exitCode, modificationVars, otherVars>>

\* log "Chopsticks Test Done"; await chopsticksAPI.disconnect();
RegistrationChopsticksDisconnect ==
    /\ script = "genesisProxyRegistration"
    /\ pc = "tested"
    /\ output' = Append(output, Line("Chopsticks Test Done", NoCall))
    /\ chopsticksAPI' = "disconnected"
    /\ pc' = "disconnecting"
    /\ UNCHANGED <<args, api, fileNew, calls, finalTx, sent, error, exitCode,
                   modificationVars, otherVars>>

\* The condition of the Chopsticks test is false.
RegistrationNoChopsticks ==
    /\ script = "genesisProxyRegistration"
    /\ pc = "testing"
    /\ ~RegistrationChopsticksRequested(args)
    /\ pc' = "disconnecting"
    /\ UNCHANGED <<args, api, chopsticksAPI, fileNew, calls, finalTx, output, sent,
                   error, exitCode, modificationVars, otherVars>>

\* await api.disconnect();
RegistrationDisconnect ==
    /\ script = "genesisProxyRegistration"
    /\ pc = "disconnecting"
    /\ api' = "disconnected"
    /\ pc' = "done"
    /\ UNCHANGED <<args, chopsticksAPI, fileNew, calls, finalTx, output, sent, error,
                   exitCode, modificationVars, otherVars>>

\* ---------------------------------------------------------------------
\* main() of the single-file registration tool
\* ---------------------------------------------------------------------

\* const api = await getApiFor(args); await api.isReady;
FileGetApi ==
    /\ script = "singleFileRegistration"
    /\ pc = "getApi"
    /\ api' = "connected"
    /\ pc' = "validate"
    /\ UNCHANGED <<args, chopsticksAPI, fileNew, calls, finalTx, output, sent, error,
                   exitCode, modificationVars, otherVars>>

\* const data = validateCSVStructure(args['proxy-file']); its messages name
\* no file.
FileValidate ==
    /\ script = "singleFileRegistration"
    /\ pc = "validate"
    /\ \E f \in RegistrationSources :
         \E r \in {RegistrationValidateCSVStructure("", f)} :
             /\ fileNew' = f
             /\ IF r.ok
                THEN /\ csvData' = r.records
                     /\ pc' = "dispatchAs"
                     /\ UNCHANGED error
                ELSE /\ pc' = "failed"
                     /\ error' = r.error
                     /\ UNCHANGED csvData
    /\ UNCHANGED <<args, api, chopsticksAPI, calls, finalTx, output, sent, exitCode,
                   modificationVars, script, summaryVars, dir, balanceVars,
                   collationVars>>

\* const batchData = await utilityDispatchAsCall(api, data);
FileDispatchAs ==
    /\ script = "singleFileRegistration"
    /\ pc = "dispatchAs"
    /\ \E r \in {utilityDispatchAsCall(calls, csvData)} :
           IF r.ok
           THEN /\ calls' = r.calls
                /\ pc' = "finalTx"
                /\ UNCHANGED error
           ELSE /\ pc' = "failed"
                /\ error' = [NoError EXCEPT !.kind = "BuildError"]
                /\ UNCHANGED calls
    /\ UNCHANGED <<args, api, chopsticksAPI, fileNew, finalTx, output, sent, exitCode,
                   modificationVars, otherVars>>

\* let finalTx = batchAll(batchData); if (args['sudo']) finalTx = sudo(finalTx);
\* and the final transaction is printed.
FileFinalTx ==
    /\ script = "singleFileRegistration"
    /\ pc = "finalTx"
    /\ finalTx' = RegistrationFinalTxOf(args, calls)
    /\ output' = output \o (IF args.sudo THEN <<Line("USING SUDO", NoCall)>> ELSE <<>>)
                        \o <<Line("FINAL TX", RegistrationFinalTxOf(args, calls))>>
    /\ pc' = "disconnecting"
    /\ UNCHANGED <<args, api, chopsticksAPI, fileNew, calls, sent, error, exitCode,
                   modificationVars, otherVars>>

\* await api.disconnect(); it comes before the Chopsticks test.
FileDisconnect ==
    /\ script = "singleFileRegistration"
    /\ pc = "disconnecting"
    /\ api' = "disconnected"
    /\ pc' = "testing"
    /\ UNCHANGED <<args, chopsticksAPI, fileNew, calls, finalTx, output, sent, error,
                   exitCode, modificationVars, otherVars>>

\* The condition of the Chopsticks test of the single-file tool.
FileChopsticksRequested(a) ==
    a.chopsticks # "" /\ a.sudo

\* const chopsticksAPI = await getApiFor({url: args['chopsticks']}); ...
FileChopsticksConnect ==
    /\ script = "singleFileRegistration"
    /\ pc = "testing"
    /\ FileChopsticksRequested(args)
    /\ chopsticksAPI' = "connected"
    /\ output' = output \o <<Line("Chopsticks Testing", NoCall), Line("Sudo", NoCall)>>
    /\ pc' = "signAndSend"
    /\ UNCHANGED <<args, api, fileNew, calls, finalTx, sent, error, exitCode,
                   modificationVars, otherVars>>

\* await signFakeWithApi(chopsticksAPI, finalTx, sudo); await finalTx.send();
\* finalTx was built on api, which is disconnected by now.
FileChopsticksSend ==
    /\ script = "singleFileRegistration"
    /\ pc = "signAndSend"
    /\ sent' = Append(sent, [tx |-> finalTx, api |-> api])
    /\ pc' = "tested"
    /\ UNCHANGED <<args, api, chopsticksAPI, fileNew, calls, finalTx, output, error,
                   exitCode, modificationVars, otherVars>>

\* log 'Chopsticks Test Done'; await chopsticksAPI.disconnect();
FileChopsticksDisconnect ==
    /\ script = "singleFileRegistration"
    /\ pc = "tested"
    /\ output' = Append(output, Line("Chopsticks Test Done", NoCall))
    /\ chopsticksAPI' = "disconnected"
    /\ pc' = "done"
    /\ UNCHANGED <<args, api, fileNew, calls, finalTx, sent, error, exitCode,
                   modificationVars, otherVars>>

\* The condition of the Chopsticks test is false: main() returns.
FileNoChopsticks ==
    /\ script = "singleFileRegistration"
    /\ pc = "testing"
    /\ ~FileChopsticksRequested(args)
    /\ pc' = "done"
    /\ UNCHANGED <<args, api, chopsticksAPI, fileNew, calls, finalTx, output, sent,
                   error, exitCode, modificationVars, otherVars>>

\* ---------------------------------------------------------------------
\* A run of one of the three proxy tools
\* ---------------------------------------------------------------------

ProxyToolsInit ==
    \/ Init
    \/ RegistrationInit
    \/ FileRegistrationInit

ProxyToolsNext ==
    \/ Connect
    \/ ValidateNew
    \/ ValidateOld
    \/ MapNew
    \/ MapOld
    \/ BuildCalls
    \/ NothingToDo
    \/ BuildBatch
    \/ WrapFinal
    \/ EmitHex
    \/ ChopsticksConnect
    \/ ChopsticksSend
    \/ ChopsticksDisconnect
    \/ SkipChopsticks
    \/ NoChopsticks
    \/ Disconnect
    \/ RegistrationGetApi
    \/ RegistrationCollect
    \/ RegistrationDispatchAs
    \/ RegistrationFinalTx
    \/ RegistrationChopsticksConnect
    \/ RegistrationChopsticksSend
    \/ RegistrationChopsticksDisconnect
    \/ RegistrationNoChopsticks
    \/ RegistrationDisconnect
    \/ FileGetApi
    \/ FileValidate
    \/ FileDispatchAs
    \/ FileFinalTx
    \/ FileDisconnect
    \/ FileChopsticksConnect
    \/ FileChopsticksSend
    \/ FileChopsticksDisconnect
    \/ FileNoChopsticks

ProxyToolsSpec ==
    ProxyToolsInit /\ [][ProxyToolsNext]_vars

\* ---------------------------------------------------------------------
\* C26
\* ---------------------------------------------------------------------

\* The run is one of genesisProxyModification.ts or of
\* genesisProxyRegistration.ts.
ModificationOrDirectory ==
    script \in {"genesisProxyModification", "genesisProxyRegistration"}

\* A final transaction is signed or sent, or the Chopsticks test has begun.
SignedOrSent ==
    \/ sent # <<>>
    \/ chopsticksAPI # "none"
    \/ pc \in {"send", "chopsticksDone", "signAndSend", "tested"}

\* The run has printed its final transaction.
FinalPrinted ==
    \E i \in DOMAIN output :
        /\ output[i].text \in {"FINAL TX HEX", "FINAL TX"}
        /\ output[i].tx = finalTx

\* C26: in a run of the modification tool or of the directory registration
\* tool, the final transaction is signed and sent only when --chopsticks
\* and --sudo are set and --url is ws://localhost:8000; a run that ends
\* with a final transaction under any other command line has printed it,
\* and has signed and sent nothing; nothing but the final transaction is
\* ever sent, and it is sent at most once.
C26_SendOnlyOnChopsticksSudoLocal ==
    ModificationOrDirectory =>
        /\ SignedOrSent =>
              args.chopsticks /\ args.sudo /\ args.url = "ws://localhost:8000"
        /\ (pc = "done" /\ finalTx # NoCall
            /\ ~(args.chopsticks /\ args.sudo /\ args.url = "ws://localhost:8000")) =>
              /\ FinalPrinted
              /\ sent = <<>>
              /\ chopsticksAPI = "none"
        /\ Len(sent) <= 1
        /\ \A i \in DOMAIN sent : sent[i].tx = finalTx /\ finalTx # NoCall

\* The directory registration tool, run with --chopsticks, --sudo and the
\* local endpoint, has sent its final transaction and ended.
C26_Witness ==
    /\ script = "genesisProxyRegistration"
    /\ pc = "done"
    /\ args.chopsticks /\ args.sudo /\ args.url = LOCAL_URL
    /\ Len(sent) = 1
    /\ sent[1].tx = finalTx
    /\ finalTx.call = "sudo.sudo"
    /\ FinalPrinted

\* ---------------------------------------------------------------------
\* C27
\* ---------------------------------------------------------------------

\* C27 (as claimed): in every proxy tool, a final transaction is sent
\* while the connection it was built on is connected, and that connection
\* is not disconnected before the send.
\* Refuted: the single-file registration tool disconnects api before the
\* Chopsticks test, so its finalTx.send() runs on a disconnected api.
C27_ConnectedWhenSent ==
    /\ \A i \in DOMAIN sent : sent[i].api = "connected"
    /\ pc \in {"send", "signAndSend"} => api = "connected"

\* ---------------------------------------------------------------------
\* C28
\* ---------------------------------------------------------------------

\* The files of the pool that the directory tool has to leave out: those
\* that are no .csv file, those whose name ends in _old or _old<digits>, and
\* Genesis_Accounts.csv.
LeftOut ==
    { <<"a", "_", "o", "l", "d", ".", "c", "s", "v">>,
      <<"b", "_", "O", "L", "D", "1", "2", ".", "c", "s", "v">>,
      <<"n", "o", "t", "e", "s", ".", "t", "x", "t">>,
      <<"G", "e", "n", "e", "s", "i", "s", "_", "A", "c", "c", "o", "u", "n", "t", "s",
        ".", "c", "s", "v">> }

\* The data rows of the files taken in, file after file and row after row.
RECURSIVE RowsTakenIn(_)
RowsTakenIn(entries) ==
    IF entries = <<>> THEN <<>>
    ELSE (IF Head(entries).file \in LeftOut THEN <<>> ELSE Head(entries).source.rows)
         \o RowsTakenIn(Tail(entries))

\* The call a row (genesis, proxy, type, delay) asks for.
CallOfRow(row) ==
    dispatchAs(decodeAddress(row[1]).value,
               addProxy(decodeAddress(row[2]).value, row[3], BigInt(row[4]).value))

\* The outer batch of a final transaction.
OuterBatch(tx) ==
    IF tx.call = "sudo.sudo" THEN tx.calls[1] ELSE tx

\* C28: once the directory registration tool has built its final
\* transaction, the outer batch has one call per data row of the files taken
\* in - dispatchAs(Signed(genesis), addProxy(proxy, type, delay)) of that
\* row - in the order of the files and, within a file, of the rows; files
\* that are no .csv file, whose name ends in _old or _old<digits>, or that
\* are Genesis_Accounts.csv give no call.
C28_OneCallPerRow ==
    (script = "genesisProxyRegistration" /\ finalTx # NoCall) =>
        /\ OuterBatch(finalTx).call = "utility.batchAll"
        /\ OuterBatch(finalTx).calls = [k \in DOMAIN RowsTakenIn(dir) |->
                                           CallOfRow(RowsTakenIn(dir)[k])]

\* The directory lists a.csv, a_old.csv and b.CSV: the batch has the two
\* calls of a.csv and then the call of b.CSV, which is the first call once more.
C28_Witness ==
    /\ script = "genesisProxyRegistration"
    /\ pc = "done"
    /\ Len(dir) = 3
    /\ dir[1].file = <<"a", ".", "c", "s", "v">>
    /\ dir[2].file = <<"a", "_", "o", "l", "d", ".", "c", "s", "v">>
    /\ dir[3].file = <<"b", ".", "C", "S", "V">>
    /\ Len(OuterBatch(finalTx).calls) = 3
    /\ OuterBatch(finalTx).calls[1] = OuterBatch(finalTx).calls[3]
    /\ OuterBatch(finalTx).calls[1] # OuterBatch(finalTx).calls[2]


\* ---------------------------------------------------------------------
\* verifyBalances: the balance verification tool
\* ---------------------------------------------------------------------

BALANCE_HEADERS ==
    <<"Address", "Balance">>

\* A line of the console that names a row of the file (0 when it names none).
BalanceLine(text, lineNumber) ==
    [text |-> text, line |-> lineNumber]

\* The accounts the chain stores, and key.toHuman() of each: its SS58 text.
ChainAccounts ==
    {"Alice", "Bob"}

toHuman(account) ==
    AddressBook[CHOOSE i \in DOMAIN AddressBook :
                    /\ AddressBook[i][2] = account
                    /\ \A j \in 1..(i - 1) : AddressBook[j][2] # account][1]

\* accountInfo.data.free of api.query.system.account(address): an account
\* the chain does not store has the default, 0.
FreeOf(c, account) ==
    IF account \in DOMAIN c.free THEN c.free[account] ELSE 0

\* trimmedCsvBalanceStr.replace(/,/g, "")
RemoveCommas(t) ==
    SelectSeq(t, LAMBDA c : c # ",")

\* The number a bigint of at most three digits stands for.
BigIntValue(digits) ==
    IF Head(digits) = "-" THEN 0 - DecimalValue(Tail(digits)) ELSE DecimalValue(digits)

\* A failed query is never counted as a mismatch.
QueryErrorIgnored(csvBalance) ==
    FALSE

\* catch of the balance query: if (csvBalance !== BigInt(0)) MismatchesFound = true
QueryErrorIsMismatch(csvBalance) ==
    csvBalance # 0

\* One iteration of the loop over the records: what it prints, whether it
\* sets MismatchesFound, the addresses it adds to csvAddresses and what it
\* adds to totalCsvBalance.  query is "ok" or "throws", the outcome of
\* api.query.system.account, and c the chain it reads.
RowOutcome(lines, mismatch, addresses, amount) ==
    [lines |-> lines, mismatch |-> mismatch, addresses |-> addresses, amount |-> amount]

QueryRow(trimmedAddress, lineNumber, csvBalance, query, c) ==
    IF query = "throws"
    THEN RowOutcome(<<BalanceLine("Error querying balance", lineNumber)>>
                    \o (IF QueryErrorIsMismatch(csvBalance) THEN <<>>
                        ELSE <<BalanceLine("CSV expected 0, but querying failed", lineNumber)>>),
                    QueryErrorIsMismatch(csvBalance), {trimmedAddress}, csvBalance)
    ELSE IF csvBalance = FreeOf(c, decodeAddress(trimmedAddress).value)
    THEN RowOutcome(<<BalanceLine("Balance MATCH", lineNumber)>>, FALSE,
                    {trimmedAddress}, csvBalance)
    ELSE RowOutcome(<<BalanceLine("Balance MISMATCH", lineNumber)>>, TRUE,
                    {trimmedAddress}, csvBalance)

BalanceOfRow(trimmedAddress, trimmedCsvBalanceStr, lineNumber, query, c) ==
    With(RemoveCommas(trimmedCsvBalanceStr), LAMBDA cleanBalanceStr :
        IF \/ isNaN(Number(cleanBalanceStr))
           \/ ~BigInt(cleanBalanceStr).ok
           \/ Head(BigInt(cleanBalanceStr).value) = "-"
        THEN RowOutcome(<<BalanceLine("Invalid Balance format", lineNumber)>>, TRUE,
                        {trimmedAddress}, 0)
        ELSE QueryRow(trimmedAddress, lineNumber,
                      BigIntValue(BigInt(cleanBalanceStr).value), query, c))

VerifyRow(row, lineNumber, query, c) ==
    IF "Address" \notin DOMAIN row \/ "Balance" \notin DOMAIN row
    THEN RowOutcome(<<BalanceLine("Missing 'Address' or 'Balance' field", lineNumber)>>,
                    TRUE, {}, 0)
    ELSE With(<<trim(row["Address"]), trim(row["Balance"])>>, LAMBDA t :
        IF t[1] = <<>> /\ t[2] = <<>>
        THEN RowOutcome(<<BalanceLine("Skipping empty or whitespace-only row", lineNumber)>>,
                        FALSE, {}, 0)
        ELSE IF t[1] = <<>>
        THEN RowOutcome(<<BalanceLine("Missing Address", lineNumber)>>, TRUE, {}, 0)
        ELSE IF t[2] = <<>>
        THEN RowOutcome(<<BalanceLine("Missing Balance value", lineNumber)>>, TRUE,
                        {t[1]}, 0)
        ELSE IF ~decodeAddress(t[1]).ok
        THEN RowOutcome(<<BalanceLine("Invalid address format", lineNumber)>>, TRUE,
                        {t[1]}, 0)
        ELSE BalanceOfRow(t[1], t[2], lineNumber, query, c))

\* headersMatch: the same count, and the same name at every position.
headersMatch(headers) ==
    /\ Len(BALANCE_HEADERS) = Len(headers)
    /\ \A i \in DOMAIN BALANCE_HEADERS : headers[i] = BALANCE_HEADERS[i]

\* accountsOnChainNotInCsvWithBalance
NotInCsvWithBalance(c, addresses) ==
    { a \in DOMAIN c.free : c.free[a] > 0 /\ toHuman(a) \notin addresses }

\* ---------------------------------------------------------------------
\* Inputs of verifyBalances
\* ---------------------------------------------------------------------

BalanceRowPool ==
    { << <<"5", "A">>, <<"5">> >>,
      << <<"5", "B">>, <<"0">> >>,
      << <<"5", "B">>, <<"1">> >>,
      << <<>>, <<>> >>,
      << <<"z", "z">>, <<"1">> >>,
      << <<"5", "A">>, <<"x">> >>,
      << <<"5", "A">>, <<"-", "5">> >>,
      << <<"5", "B">>, <<"1", ".", "5">> >> }

\* Files that are absent, that the parser rejects, whose header is not the
\* expected one, or whose rows lack an address or a balance, give the
\* account in hexadecimal or write the balance with commas or zeros.
OddBalanceFiles ==
    { [exists |-> FALSE, header |-> <<>>, rows |-> <<>>],
      [exists |-> TRUE, header |-> BALANCE_HEADERS, rows |-> << << <<"5", "A">> >> >>],
      [exists |-> TRUE, header |-> <<"Account", "Balance">>, rows |-> <<>>],
      [exists |-> TRUE, header |-> <<"Account", "Balance">>,
       rows |-> << << <<"5", "A">>, <<"5">> >> >>],
      [exists |-> TRUE, header |-> <<"Balance", "Address">>,
       rows |-> << << <<"5">>, <<"5", "A">> >> >>],
      [exists |-> TRUE, header |-> <<"Address", "Balance", "Note">>,
       rows |-> << << <<"5", "A">>, <<"5">>, <<"x">> >> >>],
      [exists |-> TRUE, header |-> <<"Address">>, rows |-> << << <<"5", "A">> >> >>],
      [exists |-> TRUE, header |-> BALANCE_HEADERS,
       rows |-> << << <<>>, <<"5">> >> >>],
      [exists |-> TRUE, header |-> BALANCE_HEADERS,
       rows |-> << << <<"5", "A">>, <<>> >> >>],
      [exists |-> TRUE, header |-> BALANCE_HEADERS,
       rows |-> << << <<"0", "x", "A">>, <<"5">> >> >>],
      [exists |-> TRUE, header |-> BALANCE_HEADERS,
       rows |-> << << <<"5", "A">>, <<"0", ",", "0", "0", "5">> >>,
                   << <<"5", "B">>, <<"0", "0">> >> >>] }

BalanceFiles ==
    { [exists |-> TRUE, header |-> BALANCE_HEADERS, rows |-> rs] :
        rs \in SeqsUpTo(BalanceRowPool, MaxRows) }
    \cup OddBalanceFiles

\* Free balances per account, and a total issuance that is their sum or,
\* with a reserved balance, more.
Chains ==
    { [free |-> f, issuance |-> f["Alice"] + f["Bob"] + reserved] :
        f \in [ChainAccounts -> {0, 1, 5}], reserved \in {0, 1} }

BalancesInit ==
    /\ script = "verifyBalances"
    /\ pc = "readFile"
    /\ args = [filePath |-> "balances.csv"]
    /\ csvFile \in BalanceFiles
    /\ chain \in Chains
    /\ csvRecords = <<>>
    /\ rowIndex = 0
    /\ MismatchesFound = FALSE
    /\ totalCsvBalance = 0
    /\ csvAddresses = {}
    /\ api = "connected"
    /\ chopsticksAPI = "none"
    /\ fileNew = NoSource
    /\ calls = <<>>
    /\ finalTx = NoCall
    /\ output = <<>>
    /\ sent = <<>>
    /\ error = NoError
    /\ exitCode = 0
    /\ ModificationIdle
    /\ SummaryIdle
    /\ RegistrationIdle
    /\ CollationIdle

\* What verifyBalances never touches.
balancesFrame ==
    <<args, api, chopsticksAPI, fileNew, calls, finalTx, sent, error,
      modificationVars, script, summaryVars, dir, csvData, collationVars, csvFile,
      chain>>

\* ---------------------------------------------------------------------
\* The steps of verifyBalances
\* ---------------------------------------------------------------------

\* existsSync, readFileSync and parse: a missing file and a parser error
\* set the exit code and return.
BalancesReadFile ==
    /\ script = "verifyBalances"
    /\ pc = "readFile"
    /\ IF ~csvFile.exists
       THEN /\ output' = output \o <<BalanceLine("Attempting to read CSV file", 0),
                                     BalanceLine("File not found", 0)>>
            /\ exitCode' = 1
            /\ pc' = "returned"
            /\ UNCHANGED csvRecords
       ELSE IF ~parse(csvFile).ok
       THEN /\ output' = output \o <<BalanceLine("Attempting to read CSV file", 0),
                                     BalanceLine("Error parsing CSV file", 0)>>
            /\ exitCode' = 1
            /\ pc' = "returned"
            /\ UNCHANGED csvRecords
       ELSE /\ output' = Append(output, BalanceLine("Attempting to read CSV file", 0))
            /\ csvRecords' = parse(csvFile).records
            /\ pc' = "header"
            /\ UNCHANGED exitCode
    /\ UNCHANGED <<rowIndex, MismatchesFound, totalCsvBalance, csvAddresses>>
    /\ UNCHANGED balancesFrame

\* No record: a warning only.  Else the header is compared; a header that
\* differs sets the flag and no row is read.
BalancesCheckHeader ==
    /\ script = "verifyBalances"
    /\ pc = "header"
    /\ IF Len(csvRecords) = 0
       THEN /\ output' = output \o <<BalanceLine("Verifying Balances", 0),
                                     BalanceLine("CSV file is empty or contains only a header", 0)>>
            /\ pc' = "scan"
            /\ UNCHANGED <<MismatchesFound, rowIndex>>
       ELSE IF ~headersMatch(csvFile.header)
       THEN /\ output' = output \o <<BalanceLine("Verifying Balances", 0),
                                     BalanceLine("CSV header mismatch", 0)>>
            /\ MismatchesFound' = TRUE
            /\ pc' = "scan"
            /\ UNCHANGED rowIndex
       ELSE /\ output' = output \o <<BalanceLine("Verifying Balances", 0),
                                     BalanceLine("Found data record(s)", 0)>>
            /\ rowIndex' = 1
            /\ pc' = "rows"
            /\ UNCHANGED MismatchesFound
    /\ UNCHANGED <<csvRecords, totalCsvBalance, csvAddresses, exitCode>>
    /\ UNCHANGED balancesFrame

\* One iteration of for (const [index, row] of records.entries()).
BalancesCheckRow ==
    /\ script = "verifyBalances"
    /\ pc = "rows"
    /\ \E query \in {"ok", "throws"} :
         \E r \in {VerifyRow(csvRecords[rowIndex], rowIndex + 1, query, chain)} :
             /\ output' = output \o r.lines
             /\ MismatchesFound' = (MismatchesFound \/ r.mismatch)
             /\ csvAddresses' = csvAddresses \cup r.addresses
             /\ totalCsvBalance' = totalCsvBalance + r.amount
    /\ rowIndex' = rowIndex + 1
    /\ pc' = IF rowIndex = Len(csvRecords) THEN "scan" ELSE "rows"
    /\ UNCHANGED <<csvRecords, exitCode>>
    /\ UNCHANGED balancesFrame

\* api.query.system.account.entries() and the accounts it finds with a free
\* balance and no row in the file.
BalancesScan ==
    /\ script = "verifyBalances"
    /\ pc = "scan"
    /\ \E query \in {"ok", "throws"} :
         IF query = "throws"
         THEN /\ output' = output \o <<BalanceLine("Scanning All On-Chain Accounts", 0),
                                       BalanceLine("Error during on-chain account scan", 0)>>
              /\ MismatchesFound' = TRUE
         ELSE IF NotInCsvWithBalance(chain, csvAddresses) # {}
         THEN /\ output' = output \o <<BalanceLine("Scanning All On-Chain Accounts", 0),
                                       BalanceLine("Found account(s) NOT listed in the CSV", 0)>>
              /\ MismatchesFound' = TRUE
         ELSE /\ output' = output \o <<BalanceLine("Scanning All On-Chain Accounts", 0),
                                       BalanceLine("All on-chain accounts covered by the CSV", 0)>>
              /\ UNCHANGED MismatchesFound
    /\ pc' = "issuance"
    /\ UNCHANGED <<csvRecords, rowIndex, totalCsvBalance, csvAddresses, exitCode>>
    /\ UNCHANGED balancesFrame

\* api.query.balances.totalIssuance() against the sum of the file; the sum
\* of the scan differing from it is a warning only.
BalancesIssuance ==
    /\ script = "verifyBalances"
    /\ pc = "issuance"
    /\ \E query \in {"ok", "throws"} :
         IF query = "throws"
         THEN /\ output' = output \o <<BalanceLine("Verifying Sums", 0),
                                       BalanceLine("Error querying total issuance", 0)>>
              /\ MismatchesFound' = TRUE
         ELSE IF totalCsvBalance # chain.issuance
         THEN /\ output' = output \o <<BalanceLine("Verifying Sums", 0),
                                       BalanceLine("Sum from CSV DOES NOT MATCH total issuance", 0)>>
              /\ MismatchesFound' = TRUE
         ELSE /\ output' = output \o <<BalanceLine("Verifying Sums", 0),
                                       BalanceLine("Sum from CSV MATCHES total issuance", 0)>>
              /\ UNCHANGED MismatchesFound
    /\ pc' = "verdict"
    /\ UNCHANGED <<csvRecords, rowIndex, totalCsvBalance, csvAddresses, exitCode>>
    /\ UNCHANGED balancesFrame

\* The last message, and the exit code when the flag is set.
BalancesVerdict ==
    /\ script = "verifyBalances"
    /\ pc = "verdict"
    /\ IF MismatchesFound
       THEN /\ output' = Append(output,
                    BalanceLine("Verification complete with one or more mismatches or errors", 0))
            /\ exitCode' = IF exitCode = 0 THEN 1 ELSE exitCode
       ELSE /\ output' = Append(output,
                    BalanceLine("Verification complete. All checks passed", 0))
            /\ UNCHANGED exitCode
    /\ pc' = "returned"
    /\ UNCHANGED <<csvRecords, rowIndex, MismatchesFound, totalCsvBalance, csvAddresses>>
    /\ UNCHANGED balancesFrame

BalancesNext ==
    \/ BalancesReadFile
    \/ BalancesCheckHeader
    \/ BalancesCheckRow
    \/ BalancesScan
    \/ BalancesIssuance
    \/ BalancesVerdict

BalancesSpec ==
    BalancesInit /\ [][BalancesNext]_vars


\* ---------------------------------------------------------------------
\* C29
\* ---------------------------------------------------------------------

\* verifyBalances has returned after the success message, the exit code
\* still 0.
BalancesSucceeded ==
    /\ script = "verifyBalances"
    /\ pc = "returned"
    /\ exitCode = 0
    /\ \E i \in DOMAIN output : output[i].text = "Verification complete. All checks passed"

\* A data row that is not empty: it has an address or a balance.
NonEmptyRow(row) ==
    \E k \in DOMAIN row : row[k] # <<>>

\* The balance cell is a non-negative integer: digits, commas among them.
IntegerBalance(cell) ==
    /\ cell # <<>>
    /\ \A k \in DOMAIN cell : cell[k] \in Range(Digits) \cup {","}
    /\ \E k \in DOMAIN cell : cell[k] \in Range(Digits)

\* The number a balance cell of digits and commas stands for.
RECURSIVE CellValue(_)
CellValue(cell) ==
    IF cell = <<>> THEN 0
    ELSE IF cell[Len(cell)] = "," THEN CellValue(SubSeq(cell, 1, Len(cell) - 1))
    ELSE DigitValue(cell[Len(cell)]) + 10 * CellValue(SubSeq(cell, 1, Len(cell) - 1))

\* The run printed text about row i of the file (line i + 1).
RowPrinted(text, i) ==
    \E k \in DOMAIN output : output[k].text = text /\ output[k].line = i + 1

\* Row i has a decodable address and an integer balance, its free balance
\* was queried, and the two are equal.
RowMatched(i) ==
    /\ decodeAddress(csvFile.rows[i][1]).ok
    /\ IntegerBalance(csvFile.rows[i][2])
    /\ RowPrinted("Balance MATCH", i)
    /\ ~RowPrinted("Error querying balance", i)
    /\ CellValue(csvFile.rows[i][2]) = FreeOf(chain, decodeAddress(csvFile.rows[i][1]).value)

\* Row i has a decodable address and the balance 0, and the query of its
\* free balance failed.
RowZeroUnqueried(i) ==
    /\ decodeAddress(csvFile.rows[i][1]).ok
    /\ IntegerBalance(csvFile.rows[i][2])
    /\ CellValue(csvFile.rows[i][2]) = 0
    /\ RowPrinted("Error querying balance", i)

MaxBootNodes ==
    2

\* rawSpec is [para_id, bootNodes]; bootNodes is [defined, nodes], and
\* defined is FALSE when the JSON has no bootNodes (or has null).
ChainSpecs ==
    { [para_id |-> p, bootNodes |-> b] :
        p \in {2000, 2001},
        b \in { [defined |-> FALSE, nodes |-> <<>>] }
              \cup { [defined |-> TRUE, nodes |-> n] :
                       n \in SeqsUpTo({"/dns4/a/tcp/30333", "/dns4/b/tcp/30333"},
                                      MaxBootNodes) } }

CollationArgs ==
    [ chain : {"spec-raw.json"}, account : {"//Alice"}, url : Urls ]

\* A call of the registrar pallet: its name, the para id and the other
\* argument (the genesis data or the boot nodes; <<>> when it has none).
RegistrarCall(name, paraId, arg) ==
    [call |-> name, paraId |-> paraId, arg |-> arg]

\* chainSpecToContainerChainGenesisData(api, rawSpec)
containerChainGenesisData(spec) ==
    <<"genesis data of", spec.para_id>>

\* The boot nodes are set whenever the field is there, empty or not.
BootNodesDefined(spec) ==
    spec.bootNodes.defined

\* rawSpec.bootNodes?.length
HasBootNodes(spec) ==
    spec.bootNodes.defined /\ Len(spec.bootNodes.nodes) # 0

\* txs, as the pushes leave it.
CollationTxs(spec) ==
    <<RegistrarCall("registrar.register", spec.para_id, containerChainGenesisData(spec))>>
    \o (IF HasBootNodes(spec)
        THEN <<sudo(RegistrarCall("registrar.setBootNodes", spec.para_id,
                                  spec.bootNodes.nodes))>>
        ELSE <<>>)
    \o <<sudo(RegistrarCall("registrar.markValidForCollating", spec.para_id, <<>>))>>

CollationInit ==
    /\ script = "registerForCollation"
    /\ pc = "getApi"
    /\ args \in CollationArgs
    /\ rawSpec \in ChainSpecs
    /\ txs = <<>>
    /\ NotConnected
    /\ ModificationIdle
    /\ SummaryIdle
    /\ RegistrationIdle
    /\ BalancesIdle

\* What registerForCollation never touches.
collationFrame ==
    <<args, chopsticksAPI, fileNew, calls, exitCode, modificationVars, script,
      summaryVars, dir, csvData, balanceVars, rawSpec>>

\* const api = await getApiFor(argv);
CollationGetApi ==
    /\ script = "registerForCollation"
    /\ pc = "getApi"
    /\ api' = "connected"
    /\ pc' = "readFile"
    /\ UNCHANGED <<txs, finalTx, output, sent, error>>
    /\ UNCHANGED collationFrame

\* JSONbig.parse(await fs.readFile(argv.chain, "utf8")), the key pair and
\* the genesis data: any of them may throw, and the finally block runs.
CollationReadSpec ==
    /\ script = "registerForCollation"
    /\ pc = "readFile"
    /\ \E thrown \in {"none", "readFile", "parse", "addFromUri", "genesisData"} :
         IF thrown = "none"
         THEN /\ pc' = "build"
              /\ UNCHANGED error
         ELSE /\ pc' = "finally"
              /\ error' = ErrorAt(thrown, args.chain, 0)
    /\ output' = Append(output, Line("Reading chainSpec from", NoCall))
    /\ UNCHANGED <<api, txs, finalTx, sent>>
    /\ UNCHANGED collationFrame

\* txs is filled, the message printed and the batch built.
CollationBuild ==
    /\ script = "registerForCollation"
    /\ pc = "build"
    /\ txs' = CollationTxs(rawSpec)
    /\ finalTx' = batchAll(CollationTxs(rawSpec))
    /\ output' = Append(output,
           Line(IF Len(CollationTxs(rawSpec)) = 2
                THEN "Sending register transaction (register + markValidForCollating)"
                ELSE "Sending register transaction (register + setBootNodes + markValidForCollating)",
                NoCall))
    /\ pc' = "signAndSend"
    /\ UNCHANGED <<api, sent, error>>
    /\ UNCHANGED collationFrame

\* const txHash = await txBatch.signAndSend(account): the hash and Done are
\* printed, or the call throws.
CollationSignAndSend ==
    /\ script = "registerForCollation"
    /\ pc = "signAndSend"
    /\ \E thrown \in BOOLEAN :
         IF thrown
         THEN /\ error' = ErrorAt("signAndSend", "", 0)
              /\ UNCHANGED <<sent, output>>
         ELSE /\ sent' = Append(sent, [tx |-> finalTx, api |-> api])
              /\ output' = output \o <<Line("txHash", finalTx), Line("Done", NoCall)>>
              /\ UNCHANGED error
    /\ pc' = "finally"
    /\ UNCHANGED <<api, txs, finalTx>>
    /\ UNCHANGED collationFrame

\* finally { await api.disconnect(); }
CollationFinally ==
    /\ script = "registerForCollation"
    /\ pc = "finally"
    /\ api' = "disconnected"
    /\ pc' = "done"
    /\ UNCHANGED <<txs, finalTx, output, sent, error>>
    /\ UNCHANGED collationFrame

CollationNext ==
    \/ CollationGetApi
    \/ CollationReadSpec
    \/ CollationBuild
    \/ CollationSignAndSend
    \/ CollationFinally

\* Every await of the handler settles, so the handler goes on.
CollationSpec ==
    CollationInit /\ [][CollationNext]_vars /\ WF_vars(CollationNext)

\* ---------------------------------------------------------------------
\* C30
\* ---------------------------------------------------------------------

\* tx is a registrar call of that name for the para id of the chain spec.
IsRegistrar(tx, name) ==
    tx.call = name /\ tx.paraId = rawSpec.para_id

\* tx is sudo.sudo of a registrar call of that name.
IsSudoRegistrar(tx, name) ==
    /\ tx.call = "sudo.sudo"
    /\ Len(tx.calls) = 1
    /\ IsRegistrar(tx.calls[1], name)

\* The batch: register first, markValidForCollating under sudo last, and
\* between them setBootNodes under sudo, with the boot nodes of the chain
\* spec, if and only if the chain spec lists one.
BatchAsRegistered(tx) ==
    /\ tx.call = "utility.batchAll"
    /\ IsRegistrar(tx.calls[1], "registrar.register")
    /\ IsSudoRegistrar(tx.calls[Len(tx.calls)], "registrar.markValidForCollating")
    /\ IF rawSpec.bootNodes.defined /\ rawSpec.bootNodes.nodes # <<>>
       THEN /\ Len(tx.calls) = 3
            /\ IsSudoRegistrar(tx.calls[2], "registrar.setBootNodes")
            /\ tx.calls[2].calls[1].arg = rawSpec.bootNodes.nodes
       ELSE Len(tx.calls) = 2

\* What holds at every moment of a run of registerForCollation.
CollationSafe ==
    script = "registerForCollation" =>
        /\ Len(sent) <= 1
        /\ \A i \in DOMAIN sent :
               /\ BatchAsRegistered(sent[i].tx)
               /\ sent[i].api = "connected"
        /\ pc = "signAndSend" => BatchAsRegistered(finalTx) /\ api = "connected"
        /\ pc = "done" => api = "disconnected"

\* C30: registerForCollation submits one utility.batchAll whose calls are
\* registrar.register, then sudo(registrar.setBootNodes) if and only if the
\* chain spec has a non-empty bootNodes list, then
\* sudo(registrar.markValidForCollating); and once the batch is handed to
\* signAndSend the connection ends disconnected, whether signAndSend
\* returned or threw.
C30_BatchThenDisconnect ==
    /\ []CollationSafe
    /\ (pc = "signAndSend") ~> (pc = "done" /\ api = "disconnected")
    /\ (pc = "finally" /\ error # NoError) ~> (pc = "done" /\ api = "disconnected")

\* The batch of three calls was submitted and the connection is closed.
C30_Witness ==
    /\ script = "registerForCollation"
    /\ pc = "done"
    /\ Len(sent) = 1
    /\ Len(sent[1].tx.calls) = 3
    /\ rawSpec.bootNodes.nodes # <<>>
    /\ api = "disconnected"
    /\ error = NoError

====
